---------------------------- MODULE Spec2Model ----------------------------
(***************************************************************************)
(* Model of the DCF valuation services of cf_ai_stockAnalysis:             *)
(*   - python-unified/main.py : 3-stage DCF, assumption generator, WACC,   *)
(*     the /scenarios handler;                                             *)
(*   - python-dcf/main.py     : 5-year DCF, scenario adjustment, summary,  *)
(*     the /dcf handler.                                                   *)
(*                                                                         *)
(* Numbers.  The code computes on Python floats.  Here every ratio (rate,  *)
(* margin, beta, probability, discount factor) is a fixed-point integer    *)
(* with S units per 1.0, money is an integer number of $1M, a share count  *)
(* is a fixed-point integer with S units per share, and a price is $1M per *)
(* share.  Products and quotients round toward minus infinity.  Python's   *)
(* float ** raises OverflowError when the result leaves the float range;   *)
(* the same operation here raises when the result leaves the model's       *)
(* number range (FloatMax).  Division by zero raises as in Python.         *)
(***************************************************************************)
EXTENDS Integers, Sequences, FiniteSets, TLC

S == 10^4                 \* fixed-point units per 1.0
FloatMax == 2147483647     \* largest magnitude of the model's numbers

Max(a, b) == IF a >= b THEN a ELSE b
Min(a, b) == IF a <= b THEN a ELSE b
Abs(a) == IF a >= 0 THEN a ELSE -a

\* x * r for a fixed-point ratio r:  floor(x * r / S), without overflow.
Mul(x, r) == (x \div S) * r + ((x % S) * r) \div S

\* x / r for a fixed-point ratio r # 0:  floor(x * S / r), without overflow.
DivPos(x, r) == (x \div r) * S + ((x % r) * S) \div r
Div(x, r) == IF r > 0 THEN DivPos(x, r) ELSE DivPos(-x, -r)

\* x * n / d for small integers n, d > 0 (day counts):  floor(x * n / d).
MulDivSmall(x, n, d) == (x \div d) * n + ((x % d) * n) \div d

\* a / b for two amounts of the same unit, as a fixed-point ratio:
\* floor(a * S / b) when both are small enough for the product, else the
\* same quotient of both amounts cut by a factor of ten.
RatioLimit == FloatMax \div S
RECURSIVE Ratio(_, _)
Ratio(a, b) ==
    IF Abs(a) <= RatioLimit /\ Abs(b) <= RatioLimit
    THEN IF b > 0 THEN (a * S) \div b ELSE ((-a) * S) \div (-b)
    ELSE Ratio(a \div 10, b \div 10)

\* b ** n for a fixed-point ratio b and an integer n >= 0.
RECURSIVE Pow(_, _)
Pow(b, n) == IF n = 0 THEN S ELSE Mul(Pow(b, n - 1), b)

\* Whether Python's b ** n raises OverflowError (the magnitude of the
\* result leaves the number range).
RECURSIVE PowOverflows(_, _)
PowOverflows(b, n) ==
    IF n = 0 THEN FALSE
    ELSE \/ PowOverflows(b, n - 1)
         \/ Abs(b) > S /\ Abs(Pow(b, n - 1)) \div S >= FloatMax \div Abs(b)


-----------------------------------------------------------------------------
(***************************************************************************)
(* python-unified: shared utilities                                        *)
(***************************************************************************)

\* Python's dict.update / dict(base, **custom): custom replaces key by key.
Update(base, custom) ==
    [k \in (DOMAIN base) \cup (DOMAIN custom) |->
        IF k \in DOMAIN custom THEN custom[k] ELSE base[k]]

\* Python's dict.get(key, default).
Get(d, k, default) == IF k \in DOMAIN d THEN d[k] ELSE default

WaccCap == 2500          \* 0.25
WaccFloor == 500         \* 0.05

calculate_wacc(risk_free_rate, beta, market_risk_premium, cost_of_debt, market_value_equity, market_value_debt, tax_rate) ==
    LET cost_of_equity == risk_free_rate + Mul(beta, market_risk_premium)
        total_value == market_value_equity + market_value_debt
        weight_equity == Ratio(market_value_equity, total_value)
        weight_debt == Ratio(market_value_debt, total_value)
        wacc == Mul(weight_equity, cost_of_equity)
                + Mul(Mul(weight_debt, cost_of_debt), S - tax_rate)
    IN  IF total_value = 0 THEN cost_of_equity
        ELSE IF wacc > WaccCap THEN WaccCap
        ELSE IF wacc < WaccFloor THEN WaccFloor
        ELSE wacc

maybe_calculate_dynamic_wacc(base_wacc, assumptions, market_value_equity, market_value_debt) ==
    LET total_value == market_value_equity + market_value_debt
        leverage == Ratio(market_value_debt, total_value)
        adjustment == Mul(leverage - 3000, 100)
    IN  IF ~Get(assumptions, "enable_dynamic_wacc", FALSE) THEN base_wacc
        ELSE IF total_value <= 0 THEN base_wacc
        ELSE Max(0, base_wacc + adjustment)

TerminalGrowthCeiling == 800     \* 0.08

validate_terminal_growth(terminal_growth, wacc) ==
    IF wacc <= 0 THEN Min(TerminalGrowthCeiling, Max(0, terminal_growth))
    ELSE IF terminal_growth >= wacc THEN Mul(wacc, 7000)
    ELSE Max(0, Min(TerminalGrowthCeiling, terminal_growth))

calculate_working_capital_change_from_days(revenue_current, revenue_prev, cogs_margin, dso_days, dio_days, dpo_days) ==
    LET cogs_current == Max(0, Mul(revenue_current, cogs_margin))
        cogs_prev == Max(0, Mul(revenue_prev, cogs_margin))
        delta_ar == MulDivSmall(revenue_current, dso_days, 365)
                    - MulDivSmall(revenue_prev, dso_days, 365)
        delta_inv == MulDivSmall(cogs_current, dio_days, 365)
                     - MulDivSmall(cogs_prev, dio_days, 365)
        delta_ap == MulDivSmall(cogs_current, dpo_days, 365)
                    - MulDivSmall(cogs_prev, dpo_days, 365)
    IN  (delta_ar + delta_inv) - delta_ap

calculate_terminal_value_exit_multiple(terminal_ebitda, exit_multiple) ==
    Mul(terminal_ebitda, Max(3 * S, Min(30 * S, exit_multiple)))


-----------------------------------------------------------------------------
(***************************************************************************)
(* python-unified: calculate_3stage_dcf                                    *)
(***************************************************************************)

GrowthDecayThreshold == 2500     \* stage-1 growth above 0.25 decays
GrowthDecayFactor == 9200        \* 0.92 per year
MaxReasonableMarketCap == 5000000   \* $5T in $1M

\* The WACC of a run: calculate_wacc, then maybe_calculate_dynamic_wacc.
Wacc3Stage(fundamentals, assumptions) ==
    LET mve == Mul(fundamentals.current_price, fundamentals.shares_outstanding)
        wacc_static == calculate_wacc(assumptions.risk_free_rate,
                          assumptions.beta, assumptions.market_risk_premium,
                          assumptions.cost_of_debt, mve,
                          fundamentals.total_debt, assumptions.tax_rate)
    IN  maybe_calculate_dynamic_wacc(wacc_static, assumptions, mve,
                                     fundamentals.total_debt)

\* The terminal growth a run uses, and the assumptions object after the
\* run's write to it (lines 1266-1271).
TerminalGrowthUsed(assumptions, wacc) ==
    LET validated == validate_terminal_growth(assumptions.terminal_growth, wacc)
    IN  IF validated # assumptions.terminal_growth THEN validated
        ELSE assumptions.terminal_growth

AssumptionsAfterRun(fundamentals, assumptions) ==
    [assumptions EXCEPT !.terminal_growth =
        TerminalGrowthUsed(assumptions, Wacc3Stage(fundamentals, assumptions))]

\* Change in NWC of one year, days-based or percent of the revenue change.
NwcChange(assumptions, cogs_margin, revenue_current, revenue_prev) ==
    IF Get(assumptions, "use_days_based_nwc", TRUE)
    THEN calculate_working_capital_change_from_days(revenue_current,
            revenue_prev, cogs_margin, Get(assumptions, "dso_days", 45),
            Get(assumptions, "dio_days", 60), Get(assumptions, "dpo_days", 45))
    ELSE Mul(revenue_current - revenue_prev,
             Get(assumptions, "nwc_percent_revenue", 200))

CogsMargin(fundamentals) ==
    Max(0, Min(9500, S - Get(fundamentals, "gross_margin", 4000)))

BuybackRate(assumptions) ==
    Max(0, Min(1000, Get(assumptions, "annual_buyback_rate", 0)))

DebtPaydownRate(assumptions) ==
    Max(0, Min(2000, Get(assumptions, "annual_debt_paydown_rate", 0)))

\* The snapshot object after a call of calculate_3stage_dcf.  The function
\* reads fundamentals into locals (lines 1223-1228, 1276, 1477, 1540) and
\* assigns none of its keys; the running shares and debt of lines 1337-1341
\* are locals.  A projector that kept the running balances in the snapshot
\* would leave the year-10 debt there.
FundamentalsDrifted(fundamentals, assumptions) ==
    [fundamentals EXCEPT !.total_debt =
        Mul(@, Pow(S - DebtPaydownRate(assumptions), 10))]

FundamentalsAfterRun(fundamentals, assumptions) == fundamentals

\* A stage 1 without the decay of high growth rates.
Stage1UndecayedGrowth(stage1_growth, year) == stage1_growth

\* The growth applied to revenue in year 1..5 (lines 1283-1289).
Stage1EffectiveGrowth(stage1_growth, year) ==
    IF stage1_growth > GrowthDecayThreshold
    THEN Mul(stage1_growth, Pow(GrowthDecayFactor, year - 1))
    ELSE stage1_growth

\* The growth applied to revenue in year 6..10 (lines 1365-1367).
Stage2Growth(stage1_growth, stage2_ending_growth, year) ==
    stage1_growth - Mul(stage1_growth - stage2_ending_growth, (year - 5) * (S \div 5))

\* The figures of one projected year, from its revenue, the revenue its NWC
\* change is measured against, its margin, and the shares and debt left
\* after the year's buyback and paydown.
YearFigures(fundamentals, assumptions, wacc, year, growth, projected_revenue, prior_year_revenue, ebitda_margin, current_shares, current_debt) ==
    LET ebitda == Mul(projected_revenue, ebitda_margin)
        depreciation == Mul(projected_revenue, assumptions.depreciation_percent_revenue)
        ebit == ebitda - depreciation
        nopat == Mul(ebit, S - assumptions.tax_rate)
        capex == Mul(projected_revenue, assumptions.capex_percent_revenue)
        nwc_change == NwcChange(assumptions, CogsMargin(fundamentals),
                                projected_revenue, prior_year_revenue)
        fcf == nopat + depreciation - capex - nwc_change
        discount_factor == Pow(S + wacc, year)
    IN  [year |-> year, stage |-> IF year <= 5 THEN 1 ELSE 2, growth |-> growth,
         revenue |-> projected_revenue, ebitda |-> ebitda,
         ebitda_margin |-> ebitda_margin, ebit |-> ebit, nopat |-> nopat,
         depreciation |-> depreciation, capex |-> capex,
         prior_revenue |-> prior_year_revenue,
         nwc_change |-> nwc_change, free_cash_flow |-> fcf,
         discount_factor |-> discount_factor,
         pv_fcf |-> Div(fcf, discount_factor),
         shares_outstanding |-> current_shares,
         total_debt |-> current_debt]

\* The revenue growth applied in a year.
YearGrowth(assumptions, year) ==
    IF year <= 5
    THEN Stage1EffectiveGrowth(assumptions.stage1_revenue_growth, year)
    ELSE Stage2Growth(assumptions.stage1_revenue_growth,
                      assumptions.stage2_ending_growth, year)

\* The EBITDA margin of a year: towards the target over stage 1, the target
\* in stage 2.
YearMargin(fundamentals, assumptions, year) ==
    IF year <= 5
    THEN fundamentals.ebitda_margin
         + Mul(assumptions.ebitda_margin_target - fundamentals.ebitda_margin,
               year * (S \div 5))
    ELSE assumptions.ebitda_margin_target

\* The revenue a year's NWC change is measured against (lines 1315, 1389).
PriorYearRevenue(fundamentals, assumptions, prev, year) ==
    IF year <= 5
    THEN Mul(fundamentals.revenue,
             Pow(S + assumptions.stage1_revenue_growth, year - 1))
    ELSE prev[year - 1].revenue

\* One projection year, given the years before it (prev).
ProjectionYear(fundamentals, assumptions, wacc, prev, year) ==
    YearFigures(fundamentals, assumptions, wacc, year,
        YearGrowth(assumptions, year),
        Mul(IF year = 1 THEN fundamentals.revenue ELSE prev[year - 1].revenue,
            S + YearGrowth(assumptions, year)),
        PriorYearRevenue(fundamentals, assumptions, prev, year),
        YearMargin(fundamentals, assumptions, year),
        Mul(IF year = 1 THEN fundamentals.shares_outstanding
            ELSE prev[year - 1].shares_outstanding,
            S - BuybackRate(assumptions)),
        Mul(IF year = 1 THEN fundamentals.total_debt
            ELSE prev[year - 1].total_debt,
            S - DebtPaydownRate(assumptions)))

\* The projections list after n years.
RECURSIVE Projections(_, _, _, _)
Projections(fundamentals, assumptions, wacc, n) ==
    IF n = 0 THEN << >>
    ELSE LET prev == Projections(fundamentals, assumptions, wacc, n - 1)
         IN  Append(prev, ProjectionYear(fundamentals, assumptions, wacc, prev, n))

RECURSIVE SumPvFcf(_, _)
SumPvFcf(projections, n) ==
    IF n = 0 THEN 0 ELSE SumPvFcf(projections, n - 1) + projections[n].pv_fcf


\* The exception calculate_3stage_dcf raises on these inputs, or "none".
\* OverflowError: (1 + stage1_growth) ** (year - 1) at line 1315, or the
\* discount factor; ZeroDivisionError: wacc - terminal_growth at line 1469 or
\* a zero discount factor; ValueError: line 1518.
Raises3Stage(fundamentals, assumptions) ==
    LET wacc == Wacc3Stage(fundamentals, assumptions)
        terminal_growth == TerminalGrowthUsed(assumptions, wacc)
        final_shares == Max(S, Mul(fundamentals.shares_outstanding,
                                   Pow(S - BuybackRate(assumptions), 10)))
    IN  IF PowOverflows(S + assumptions.stage1_revenue_growth, 4)
           \/ PowOverflows(S + wacc, 10)
        THEN "OverflowError"
        ELSE IF S + wacc = 0 \/ wacc - terminal_growth = 0
        THEN "ZeroDivisionError"
        ELSE IF final_shares <= 0 THEN "ValueError"
        ELSE "none"

\* exit_multiple or 10.0 (line 1472).
ExitMultipleGiven(assumptions) ==
    IF Get(assumptions, "exit_multiple_ev_ebitda", 0) = 0 THEN 10 * S
    ELSE assumptions.exit_multiple_ev_ebitda

\* The terminal year (lines 1442-1466): year 11 grows at the terminal
\* rate; a free cash flow that is not positive is replaced by 5% of revenue.
TerminalYear(fundamentals, assumptions, terminal_growth, year_10_revenue) ==
    LET year_11_revenue == Mul(year_10_revenue, S + terminal_growth)
        terminal_ebitda == Mul(year_11_revenue, assumptions.ebitda_margin_target)
        terminal_depreciation ==
            Mul(year_11_revenue, assumptions.depreciation_percent_revenue)
        terminal_ebit == terminal_ebitda - terminal_depreciation
        terminal_nopat == Mul(terminal_ebit, S - assumptions.tax_rate)
        terminal_capex == Mul(year_11_revenue, assumptions.capex_percent_revenue)
        terminal_nwc_change == NwcChange(assumptions, CogsMargin(fundamentals),
                                         year_11_revenue, year_10_revenue)
        terminal_fcf_raw == terminal_nopat + terminal_depreciation
                            - terminal_capex - terminal_nwc_change
    IN  [revenue |-> year_11_revenue,
         ebitda |-> terminal_ebitda,
         fcf_raw |-> terminal_fcf_raw,
         fcf |-> IF terminal_fcf_raw <= 0 THEN Mul(year_11_revenue, 500)
                 ELSE terminal_fcf_raw]

\* The terminal value by the method of the assumptions (lines 1468-1487).
TerminalValue(assumptions, wacc, terminal_growth, terminal_ebitda, terminal_fcf) ==
    LET terminal_method == Get(assumptions, "terminal_method", "gordon")
        tv_gordon == Div(terminal_fcf, wacc - terminal_growth)
        tv_exit_multiple ==
            calculate_terminal_value_exit_multiple(terminal_ebitda,
                ExitMultipleGiven(assumptions))
    IN  IF terminal_method = "gordon" THEN tv_gordon
        ELSE IF terminal_method = "exit_multiple" THEN tv_exit_multiple
        ELSE (tv_gordon + tv_exit_multiple) \div 2

\* An enterprise value that keeps the terminal value whole whatever its
\* share: what the safeguard of lines 1501-1509 is there to prevent.
EnterpriseValueUncut(sum_pv_fcf, pv_terminal_value_0) ==
    [pv_terminal_value |-> pv_terminal_value_0,
     enterprise_value |-> sum_pv_fcf + pv_terminal_value_0,
     terminal_value_percent |->
        IF sum_pv_fcf + pv_terminal_value_0 > 0
        THEN Ratio(pv_terminal_value_0, sum_pv_fcf + pv_terminal_value_0)
        ELSE 0,
     terminal_dominance |-> "none"]

\* The enterprise value and the terminal-dominance haircut (lines
\* 1489-1509): a terminal value above 80% of EV is cut to 80% of itself.
EnterpriseValue(sum_pv_fcf, pv_terminal_value_0) ==
    LET enterprise_value_0 == sum_pv_fcf + pv_terminal_value_0
        terminal_value_percent_0 ==
            IF enterprise_value_0 > 0
            THEN Ratio(pv_terminal_value_0, enterprise_value_0) ELSE 0
        haircut == terminal_value_percent_0 > 8000
        pv_terminal_value == IF haircut THEN Mul(pv_terminal_value_0, 8000)
                             ELSE pv_terminal_value_0
        enterprise_value == sum_pv_fcf + pv_terminal_value
    IN  [pv_terminal_value |-> pv_terminal_value,
         enterprise_value |-> enterprise_value,
         terminal_value_percent |->
            IF haircut
            THEN IF enterprise_value > 0
                 THEN Ratio(pv_terminal_value, enterprise_value) ELSE 0
            ELSE terminal_value_percent_0,
         terminal_dominance |->
            IF haircut THEN "haircut"
            ELSE IF terminal_value_percent_0 > 7500 THEN "review"
            ELSE "none"]

\* A price per share left as computed whatever market cap it implies: what
\* the reality check of lines 1523-1531 is there to prevent.
SharePriceUncapped(equity_value, final_shares) ==
    [price_per_share |-> Div(equity_value, final_shares),
     market_cap_scaled |-> FALSE]

\* The price per share and the $5T cap on the implied market cap (lines
\* 1521-1531).
SharePrice(equity_value, final_shares) ==
    LET price_uncapped == Div(equity_value, final_shares)
        implied_market_cap == Mul(price_uncapped, final_shares)
        capped == implied_market_cap > MaxReasonableMarketCap
    IN  [price_per_share |->
            IF capped
            THEN Mul(price_uncapped,
                     Ratio(MaxReasonableMarketCap, implied_market_cap))
            ELSE price_uncapped,
         market_cap_scaled |-> capped]

\* Line 1534.
UpsideDownside(price_per_share, current_price) ==
    IF current_price > 0
    THEN Ratio(price_per_share - current_price, current_price) * 100
    ELSE 0

\* The result record, from the values computed on the way.
Result3Stage(fundamentals, assumptions_after, wacc, projections, terminal_growth, terminal_year, terminal_value, sum_pv_fcf, ev, net_debt, final_shares, price) ==
    [status |-> "ok",
     price_per_share |-> price.price_per_share,
     current_price |-> fundamentals.current_price,
     upside_downside |->
        UpsideDownside(price.price_per_share, fundamentals.current_price),
     enterprise_value |-> ev.enterprise_value,
     equity_value |-> ev.enterprise_value - net_debt,
     net_debt |-> net_debt,
     wacc |-> wacc,
     terminal_value |-> terminal_value,
     pv_terminal_value |-> ev.pv_terminal_value,
     terminal_value_percent |-> ev.terminal_value_percent,
     terminal_fcf |-> terminal_year.fcf,
     sum_pv_fcf_10y |-> sum_pv_fcf,
     projections |-> projections,
     terminal_year |-> [revenue |-> terminal_year.revenue,
                        growth_rate |-> terminal_growth],
     assumptions |-> assumptions_after,
     final_shares |-> final_shares,
     warnings |-> [terminal_dominance |-> ev.terminal_dominance]]

\* Lines 1438-1574, from the WACC and the ten projected years.
Value3StageFrom(fundamentals, assumptions, wacc, projections) ==
    LET terminal_growth == TerminalGrowthUsed(assumptions, wacc)
        terminal_year == TerminalYear(fundamentals, assumptions, terminal_growth,
                                      projections[10].revenue)
        terminal_value == TerminalValue(assumptions, wacc, terminal_growth,
                              terminal_year.ebitda, terminal_year.fcf)
        sum_pv_fcf == SumPvFcf(projections, 10)
        ev == EnterpriseValue(sum_pv_fcf, Div(terminal_value, Pow(S + wacc, 10)))
        net_debt == projections[10].total_debt - fundamentals.cash
        final_shares == Max(S, projections[10].shares_outstanding)
    IN  Result3Stage(fundamentals,
            [assumptions EXCEPT !.terminal_growth = terminal_growth],
            wacc, projections, terminal_growth, terminal_year, terminal_value,
            sum_pv_fcf, ev, net_debt, final_shares,
            SharePrice(ev.enterprise_value - net_debt, final_shares))

\* The value calculate_3stage_dcf returns when it raises nothing.
Value3Stage(fundamentals, assumptions) ==
    Value3StageFrom(fundamentals, assumptions,
        Wacc3Stage(fundamentals, assumptions),
        Projections(fundamentals, assumptions,
                    Wacc3Stage(fundamentals, assumptions), 10))

\* An exception raised by a call, as the caller sees it.
Raised(exception) == [status |-> "error", error |-> exception]

calculate_3stage_dcf(fundamentals, assumptions) ==
    LET exception == Raises3Stage(fundamentals, assumptions)
    IN  IF exception = "none" THEN Value3Stage(fundamentals, assumptions)
        ELSE Raised(exception)


-----------------------------------------------------------------------------
(***************************************************************************)
(* python-unified: generate_3stage_assumptions                             *)
(***************************************************************************)

DEFAULT_RISK_FREE_RATE == 450
DEFAULT_MARKET_RISK_PREMIUM == 650
DEFAULT_TAX_RATE == 2100

GeneralProfile ==
    [category |-> "general", capex_min |-> 400, terminal_growth_cap |-> 350,
     dso |-> 45, dio |-> 60, dpo |-> 45]

get_sector_profile(sector) ==
    CASE sector = "Technology" ->
           [category |-> "high_growth", capex_min |-> 300,
            terminal_growth_cap |-> 450, dso |-> 45, dio |-> 20, dpo |-> 40]
      [] sector = "Healthcare" ->
           [category |-> "defensive", capex_min |-> 400,
            terminal_growth_cap |-> 400, dso |-> 60, dio |-> 50, dpo |-> 55]
      [] sector = "Consumer Defensive" ->
           [category |-> "defensive", capex_min |-> 400,
            terminal_growth_cap |-> 350, dso |-> 35, dio |-> 40, dpo |-> 45]
      [] sector = "Communication Services" ->
           [category |-> "mixed", capex_min |-> 500,
            terminal_growth_cap |-> 400, dso |-> 40, dio |-> 25, dpo |-> 45]
      [] sector = "Consumer Cyclical" ->
           [category |-> "cyclical", capex_min |-> 400,
            terminal_growth_cap |-> 350, dso |-> 40, dio |-> 50, dpo |-> 50]
      [] sector = "Industrials" ->
           [category |-> "cyclical", capex_min |-> 500,
            terminal_growth_cap |-> 350, dso |-> 45, dio |-> 55, dpo |-> 50]
      [] sector = "Basic Materials" ->
           [category |-> "cyclical", capex_min |-> 600,
            terminal_growth_cap |-> 300, dso |-> 45, dio |-> 70, dpo |-> 55]
      [] sector = "Energy" ->
           [category |-> "cyclical", capex_min |-> 700,
            terminal_growth_cap |-> 300, dso |-> 35, dio |-> 80, dpo |-> 60]
      [] sector = "Utilities" ->
           [category |-> "regulated", capex_min |-> 800,
            terminal_growth_cap |-> 250, dso |-> 30, dio |-> 30, dpo |-> 45]
      [] sector = "Financial Services" ->
           [category |-> "regulated", capex_min |-> 200,
            terminal_growth_cap |-> 300, dso |-> 30, dio |-> 15, dpo |-> 30]
      [] OTHER -> GeneralProfile

\* Lines 1009-1034, one step after the other on the same dict.
apply_industry_adjustments(fundamentals, assumptions) ==
    LET profile == get_sector_profile(fundamentals.sector)
        a1 == [assumptions EXCEPT
                 !.capex_percent_revenue =
                    IF @ < profile.capex_min THEN profile.capex_min ELSE @]
        a2 == [a1 EXCEPT
                 !.terminal_growth =
                    IF @ > profile.terminal_growth_cap
                    THEN profile.terminal_growth_cap ELSE @]
        a3 == IF profile.category = "high_growth"
              THEN [a2 EXCEPT !.ebitda_margin_target = Min(7000, Mul(@, 10500))]
              ELSE a2
        a4 == IF profile.category = "regulated"
              THEN [a3 EXCEPT
                      !.market_risk_premium = Max(500, @ - 50),
                      !.terminal_growth = Min(@, profile.terminal_growth_cap)]
              ELSE a3
    IN  a4

sector_margin_target(sector) ==
    CASE sector = "Technology" -> 3000
      [] sector = "Healthcare" -> 2000
      [] sector = "Financial Services" -> 2500
      [] sector = "Consumer Defensive" -> 1500
      [] sector = "Consumer Cyclical" -> 1200
      [] sector = "Industrials" -> 1500
      [] sector = "Energy" -> 1800
      [] sector = "Utilities" -> 2200
      [] sector = "Real Estate" -> 3500
      [] sector = "Communication Services" -> 2500
      [] sector = "Basic Materials" -> 1800
      [] OTHER -> 2500

\* The size-based growth ceiling (lines 1593-1610); market cap in $1M.
max_sustainable_growth(market_cap) ==
    IF market_cap > 3000000 THEN 1500
    ELSE IF market_cap > 1000000 THEN 2000
    ELSE IF market_cap > 500000 THEN 2500
    ELSE IF market_cap > 100000 THEN 3500
    ELSE IF market_cap > 10000 THEN 5000
    ELSE S

\* The generated defaults, before the caller's overrides (lines 1581-1786).
Generated3StageDefaults(fundamentals) ==
    LET historical_growth == fundamentals.revenue_cagr_3y
        analyst_growth_3y == fundamentals.analyst_revenue_growth_3y
        blended_growth == Mul(historical_growth, 4000) + Mul(analyst_growth_3y, 6000)
        stage1_growth ==
            Min(blended_growth, max_sustainable_growth(fundamentals.market_cap))
        margin_given == fundamentals.ebitda_margin
        sector_target == sector_margin_target(fundamentals.sector)
        current_ebitda_margin == IF margin_given <= 0 THEN 500 ELSE margin_given
        margin_target ==
            IF margin_given <= 0 THEN sector_target
            ELSE IF margin_given > Mul(sector_target, 15000)
            THEN Mul(margin_given, 9500)
            ELSE IF margin_given > sector_target
            THEN Max(Mul(margin_given, 9800), sector_target)
            ELSE Min(Mul(margin_given, 11000), sector_target)
        moat == fundamentals.economic_moat
        terminal_growth == IF moat = "wide" THEN 450
                           ELSE IF moat = "narrow" THEN 380 ELSE 300
        capex_given == fundamentals.capex_to_revenue_ratio
        capex_to_revenue == IF capex_given > 5000 THEN 1500 ELSE capex_given
        capex_pct == IF fundamentals.capex_accelerating
                     THEN Max(capex_to_revenue, 600)
                     ELSE Max(capex_to_revenue, 400)
        original_beta == fundamentals.beta
        capped_beta == IF original_beta > 25000 THEN 25000
                       ELSE IF original_beta < 3000 THEN 3000 ELSE original_beta
        beta == IF original_beta > 20000
                THEN Mul(capped_beta, 3300) + Mul(12000, 6700)
                ELSE capped_beta
        total_debt == fundamentals.total_debt
        interest_expense == Mul(fundamentals.operating_income, 200)
        cost_of_debt_raw == IF total_debt > 0
                            THEN Ratio(interest_expense, total_debt) ELSE 400
        cost_of_debt == Max(300, Min(1000, cost_of_debt_raw))
        gross_margin == fundamentals.gross_margin
        days == IF gross_margin > 6000 THEN [dso |-> 40, dio |-> 30, dpo |-> 50]
                ELSE IF gross_margin < 3000 THEN [dso |-> 55, dio |-> 70, dpo |-> 45]
                ELSE [dso |-> 45, dio |-> 60, dpo |-> 45]
        repurchase_ratio ==
            IF fundamentals.market_cap = 0
            THEN (IF fundamentals.share_repurchases > 0 THEN S ELSE 0)
            ELSE Ratio(fundamentals.share_repurchases, fundamentals.market_cap)
    IN  [stage1_revenue_growth |-> stage1_growth,
         stage2_starting_growth |-> stage1_growth,
         stage2_ending_growth |-> Max(terminal_growth + 100, Mul(stage1_growth, 4000)),
         terminal_growth |-> terminal_growth,
         ebitda_margin_current |-> current_ebitda_margin,
         ebitda_margin_target |-> margin_target,
         capex_percent_revenue |-> capex_pct,
         nwc_percent_revenue |-> 200,
         depreciation_percent_revenue |-> 300,
         use_days_based_nwc |-> TRUE,
         dso_days |-> days.dso,
         dio_days |-> days.dio,
         dpo_days |-> days.dpo,
         risk_free_rate |-> DEFAULT_RISK_FREE_RATE,
         market_risk_premium |-> DEFAULT_MARKET_RISK_PREMIUM,
         beta |-> beta,
         cost_of_debt |-> cost_of_debt,
         tax_rate |-> DEFAULT_TAX_RATE,
         annual_buyback_rate |-> Min(300, Max(0, repurchase_ratio)),
         annual_debt_paydown_rate |-> IF total_debt > 0 THEN 500 ELSE 0,
         terminal_method |-> "both",
         exit_multiple_ev_ebitda |-> 10 * S]

generate_3stage_assumptions(fundamentals, custom) ==
    apply_industry_adjustments(fundamentals,
        Update(Generated3StageDefaults(fundamentals), custom))

\* The caller's objects after generate_3stage_assumptions returned: the
\* snapshot is read with get() only, custom is read by assumptions.update
\* (line 1789), and apply_industry_adjustments writes to the new
\* assumptions dict only (lines 1010-1036).
FundamentalsAfterGenerate(fundamentals, custom) == fundamentals

CustomAfterGenerate(fundamentals, custom) == custom


-----------------------------------------------------------------------------
(***************************************************************************)
(* python-dcf: calculate_wacc, calculate_dcf, generate_dcf_assumptions,    *)
(* adjust_assumptions_for_scenario, generate_summary                       *)
(***************************************************************************)

DCF_DEFAULT_MARKET_RISK_PREMIUM == 800
MAX_GROWTH_RATE == 5000
MIN_WACC == 300
MAX_WACC == 3000

dcf_calculate_wacc(risk_free_rate, beta, market_risk_premium, cost_of_debt, debt_to_equity, tax_rate) ==
    LET cost_of_equity == risk_free_rate + Mul(beta, market_risk_premium)
        total_value == S + debt_to_equity
        weight_equity == Ratio(S, total_value)
        weight_debt == Ratio(debt_to_equity, total_value)
    IN  Mul(weight_equity, cost_of_equity)
        + Mul(Mul(weight_debt, cost_of_debt), S - tax_rate)

DcfWaccOf(assumptions) ==
    dcf_calculate_wacc(assumptions.risk_free_rate, assumptions.beta,
                       assumptions.market_risk_premium, assumptions.cost_of_debt,
                       assumptions.debt_to_equity_ratio,
                       assumptions.tax_rate_current)

\* The WACC calculate_dcf uses: clamped to [MIN_WACC, MAX_WACC].
DcfWaccUsed(assumptions) ==
    LET wacc == DcfWaccOf(assumptions)
    IN  IF wacc < MIN_WACC \/ wacc > MAX_WACC
        THEN Max(MIN_WACC, Min(MAX_WACC, wacc)) ELSE wacc

\* The terminal growth calculate_dcf uses (lines 329-332).
DcfTerminalGrowthUsed(assumptions) ==
    LET wacc == DcfWaccUsed(assumptions)
    IN  IF assumptions.terminal_growth_rate >= wacc THEN Mul(wacc, 5000)
        ELSE assumptions.terminal_growth_rate

DcfProjectionYear(snapshot, assumptions, wacc, year) ==
    LET projected_revenue ==
            Mul(snapshot.revenue,
                Pow(S + assumptions.revenue_growth_years_1_5, year))
        ebitda == Mul(projected_revenue, assumptions.ebitda_margin_target)
        depreciation == Mul(projected_revenue, 300)
        ebit == ebitda - depreciation
        net_income == Mul(ebit, S - assumptions.tax_rate_current)
        capex == Mul(projected_revenue, assumptions.capex_as_percent_revenue)
        wc_change == Mul(projected_revenue,
                         Get(assumptions, "working_capital_as_percent_revenue", 200))
        fcf == net_income + depreciation - capex - wc_change
    IN  [year |-> year, revenue |-> projected_revenue, ebitda |-> ebitda,
         ebit |-> ebit, net_income |-> net_income, capex |-> capex,
         depreciation |-> depreciation, working_capital_change |-> wc_change,
         free_cash_flow |-> fcf,
         discounted_fcf |-> Div(fcf, Pow(S + wacc, year))]

RECURSIVE SumDiscountedFcf(_, _)
SumDiscountedFcf(projections, n) ==
    IF n = 0 THEN 0
    ELSE SumDiscountedFcf(projections, n - 1) + projections[n].discounted_fcf

\* The exception calculate_dcf raises, or "none": OverflowError from
\* (1 + growth) ** year (line 340), ValueError from line 416.
RaisesDcf(snapshot, assumptions) ==
    IF PowOverflows(S + assumptions.revenue_growth_years_1_5, 5)
    THEN "OverflowError"
    ELSE IF Get(assumptions, "terminal_multiple_method", "perpetuity") # "exit_multiple"
            /\ DcfWaccUsed(assumptions) - DcfTerminalGrowthUsed(assumptions) = 0
    THEN "ZeroDivisionError"
    ELSE IF snapshot.shares_outstanding <= 0 THEN "ValueError"
    ELSE "none"

\* The terminal year (lines 384-393): year 5's revenue grown once more at
\* the terminal rate.
DcfTerminalYear(assumptions, terminal_growth, year_5_revenue) ==
    LET terminal_year_revenue == Mul(year_5_revenue, S + terminal_growth)
        terminal_year_ebitda ==
            Mul(terminal_year_revenue, assumptions.ebitda_margin_target)
        terminal_year_depreciation == Mul(terminal_year_revenue, 300)
        terminal_year_ebit == terminal_year_ebitda - terminal_year_depreciation
        terminal_year_net_income ==
            Mul(terminal_year_ebit, S - assumptions.tax_rate_current)
    IN  [ebitda |-> terminal_year_ebitda,
         fcf |-> terminal_year_net_income + terminal_year_depreciation
                 - Mul(terminal_year_revenue, assumptions.capex_as_percent_revenue)
                 - Mul(terminal_year_revenue,
                       Get(assumptions, "working_capital_as_percent_revenue", 200))]

\* The terminal value (lines 395-402).
DcfTerminalValue(assumptions, wacc, terminal_growth, terminal_year_ebitda, terminal_year_fcf) ==
    IF Get(assumptions, "terminal_multiple_method", "perpetuity") = "exit_multiple"
    THEN Mul(terminal_year_ebitda,
             Get(assumptions, "terminal_ebitda_multiple", 10 * S))
    ELSE Div(terminal_year_fcf, wacc - terminal_growth)

\* The result record (lines 404-440), from the enterprise value.
DcfResult(snapshot, wacc, terminal_growth, terminal_value, projections, enterprise_value) ==
    LET net_debt == snapshot.debt - snapshot.cash
        equity_value == enterprise_value - net_debt
        price_per_share == Div(equity_value, snapshot.shares_outstanding)
        current_price == snapshot.current_price
    IN  [status |-> "ok",
         enterprise_value |-> enterprise_value,
         equity_value |-> equity_value,
         price_per_share |-> price_per_share,
         current_price |-> current_price,
         upside_downside |->
            IF current_price > 0
            THEN Ratio(price_per_share - current_price, current_price) * 100
            ELSE 0,
         wacc |-> wacc,
         terminal_growth |-> terminal_growth,
         terminal_value |-> terminal_value,
         projections |-> projections]

\* Lines 384-440, from the five projected years and the terminal year.
DcfValueOf(snapshot, assumptions, wacc, terminal_growth, projections, terminal_year) ==
    DcfResult(snapshot, wacc, terminal_growth,
        DcfTerminalValue(assumptions, wacc, terminal_growth,
                         terminal_year.ebitda, terminal_year.fcf),
        projections,
        SumDiscountedFcf(projections, 5)
        + Div(DcfTerminalValue(assumptions, wacc, terminal_growth,
                               terminal_year.ebitda, terminal_year.fcf),
              Pow(S + wacc, 5)))

\* Lines 338-440, from the WACC and the terminal growth in use.
ValueDcfFrom(snapshot, assumptions, wacc, terminal_growth, projections) ==
    DcfValueOf(snapshot, assumptions, wacc, terminal_growth, projections,
        DcfTerminalYear(assumptions, terminal_growth, projections[5].revenue))

\* The value calculate_dcf returns when it raises nothing.
ValueDcf(snapshot, assumptions) ==
    ValueDcfFrom(snapshot, assumptions, DcfWaccUsed(assumptions),
        DcfTerminalGrowthUsed(assumptions),
        [year \in 1..5 |->
            DcfProjectionYear(snapshot, assumptions,
                              DcfWaccUsed(assumptions), year)])

calculate_dcf(snapshot, assumptions) ==
    LET exception == RaisesDcf(snapshot, assumptions)
    IN  IF exception = "none" THEN ValueDcf(snapshot, assumptions)
        ELSE Raised(exception)

GeneratedDcfDefaults(snapshot) ==
    LET historical_revenue_growth == snapshot.revenue_growth
        current_ebit_margin == snapshot.ebit_margin
        debt_to_equity == IF snapshot.equity > 0
                          THEN Ratio(snapshot.debt, snapshot.equity) ELSE 0
    IN  [revenue_growth_years_1_5 |-> Min(historical_revenue_growth, 1500),
         revenue_growth_years_6_10 |-> Min(Mul(historical_revenue_growth, 5000), 800),
         terminal_growth_rate |-> 300,
         ebitda_margin_current |-> current_ebit_margin + 300,
         ebitda_margin_target |-> Min(current_ebit_margin + 500, 3000),
         tax_rate_current |-> DEFAULT_TAX_RATE,
         capex_as_percent_revenue |-> 400,
         working_capital_as_percent_revenue |-> 200,
         risk_free_rate |-> DEFAULT_RISK_FREE_RATE,
         market_risk_premium |-> DCF_DEFAULT_MARKET_RISK_PREMIUM,
         beta |-> snapshot.beta,
         cost_of_debt |-> 500,
         debt_to_equity_ratio |-> debt_to_equity,
         terminal_multiple_method |-> "perpetuity",
         terminal_ebitda_multiple |-> 10 * S]

generate_dcf_assumptions(snapshot, custom) ==
    LET assumptions == Update(GeneratedDcfDefaults(snapshot), custom)
        wacc_estimate == DcfWaccOf(assumptions)
    IN  IF assumptions.terminal_growth_rate >= wacc_estimate
        THEN [assumptions EXCEPT !.terminal_growth_rate = Mul(wacc_estimate, 5000)]
        ELSE assumptions

adjust_assumptions_for_scenario(base_assumptions, scenario) ==
    IF scenario = "bull"
    THEN [base_assumptions EXCEPT
            !.revenue_growth_years_1_5 = Min(Mul(@, 13000), MAX_GROWTH_RATE),
            !.ebitda_margin_target = Min(@ + 200, 4000),
            !.risk_free_rate = @ - 100]
    ELSE IF scenario = "bear"
    THEN [base_assumptions EXCEPT
            !.revenue_growth_years_1_5 = Max(Mul(@, 7000), -500),
            !.ebitda_margin_target = Max(@ - 200, 500),
            !.risk_free_rate = @ + 100]
    ELSE base_assumptions

\* results: the scenarios that were run, by name ("base", "bull", "bear").
generate_summary(results) ==
    LET base_price == IF "base" \in DOMAIN results
                      THEN results["base"].price_per_share ELSE 0
        bull_price == IF "bull" \in DOMAIN results
                      THEN results["bull"].price_per_share
                      ELSE Mul(base_price, 13000)
        bear_price == IF "bear" \in DOMAIN results
                      THEN results["bear"].price_per_share
                      ELSE Mul(base_price, 7000)
    IN  [fair_value_range |-> [low |-> bear_price, high |-> bull_price,
                               base |-> base_price],
         probability_weighted_value |->
            Mul(base_price, 5000) + Mul(bull_price, 2500) + Mul(bear_price, 2500)]


-----------------------------------------------------------------------------
(***************************************************************************)
(* python-unified: the /scenarios handler (run_scenarios)                  *)
(***************************************************************************)

ScenarioNames == <<"base", "bull", "bear">>

ExitMultipleOrDefault(assumptions) ==
    IF Get(assumptions, "exit_multiple_ev_ebitda", 0) = 0 THEN 10 * S
    ELSE assumptions.exit_multiple_ev_ebitda

\* Lines 379-383.
BullAssumptions(base_assump) ==
    Update(base_assump,
        [stage1_revenue_growth |->
            Min(Mul(base_assump.stage1_revenue_growth, 12500), 3000),
         stage2_ending_growth |->
            Min(Mul(base_assump.stage2_ending_growth, 12500), 1200),
         ebitda_margin_target |->
            Min(Mul(base_assump.ebitda_margin_target, 10500), 6500),
         exit_multiple_ev_ebitda |->
            Mul(ExitMultipleOrDefault(base_assump), 12000)])

\* Lines 385-389.
BearAssumptions(base_assump) ==
    Update(base_assump,
        [stage1_revenue_growth |->
            Max(Mul(base_assump.stage1_revenue_growth, 7000), 200),
         stage2_ending_growth |->
            Max(Mul(base_assump.stage2_ending_growth, 7000), 100),
         ebitda_margin_target |->
            Max(Mul(base_assump.ebitda_margin_target, 9000),
                base_assump.ebitda_margin_current),
         exit_multiple_ev_ebitda |->
            Max(5 * S, Mul(ExitMultipleOrDefault(base_assump), 8000))])

ScenarioAssumptions(base_assump) ==
    [name \in {"base", "bull", "bear"} |->
        IF name = "bull" THEN BullAssumptions(base_assump)
        ELSE IF name = "bear" THEN BearAssumptions(base_assump)
        ELSE base_assump]

NoResult == [status |-> "none"]

\* Lines 405-413 over the scenarios in order; a failed scenario is None.
RECURSIVE WeightedSums(_, _, _)
WeightedSums(results, probs, n) ==
    IF n = 0 THEN [weighted_value |-> 0, total_weight |-> 0]
    ELSE LET rest == WeightedSums(results, probs, n - 1)
             name == ScenarioNames[n]
             res == results[name]
             prob == Get(probs, name, 0)
         IN  IF res.status = "ok" /\ prob > 0
             THEN [weighted_value |->
                       rest.weighted_value + Mul(res.price_per_share, prob),
                   total_weight |-> rest.total_weight + prob]
             ELSE rest

\* Lines 405-424: the weighted fair value and the response, from the
\* results of the three scenarios.
ScenarioResponse(results, probs) ==
    LET sums == WeightedSums(results, probs, 3)
    IN  [success |-> TRUE,
         scenarios |-> results,
         probabilities |-> probs,
         has_weighted |-> sums.total_weight > 0,
         weighted_fair_value |->
            IF sums.total_weight > 0
            THEN Div(sums.weighted_value, sums.total_weight) ELSE 0]

\* Lines 397-403: what one scenario leaves in results (None when it raised).
ScenarioResult(fundamentals_in, assump) ==
    LET r == calculate_3stage_dcf(fundamentals_in, assump)
    IN  IF r.status = "ok" THEN r ELSE NoResult

run_scenarios(fundamentals_in, custom_in, probs) ==
    LET base_assump == generate_3stage_assumptions(fundamentals_in, custom_in)
        scenarios == ScenarioAssumptions(base_assump)
        results == [name \in {"base", "bull", "bear"} |->
                       ScenarioResult(fundamentals_in, scenarios[name])]
    IN  ScenarioResponse(results, probs)

\* The dict objects of one /scenarios request, by identity: 0 is the
\* fundamentals snapshot, 1 the dict generate_3stage_assumptions returned,
\* 2 and 3 the next two objects the request allocates.
SnapshotObject == 0
BaseObject == 1
DictObjects == {1, 2, 3}

\* dict(source) (lines 376-377) is a new object with the items of source;
\* an assignment without the copy would bind the name to source itself.
DictAlias(source, fresh) == source
DictCopy(source, fresh) == fresh

\* Lines 375-395: the objects after the bull and bear tweaks were written,
\* each assignment reading base_assump as it is at that moment.
ScenarioObjects(base_assump) ==
    [base |-> BaseObject,
     bull |-> DictCopy(BaseObject, 2),
     bear |-> DictCopy(BaseObject, 3)]

HeapAfterBull(heap_in, objects) ==
    [heap_in EXCEPT ![objects.bull] = BullAssumptions(heap_in[objects.base])]

HeapAfterBear(heap_in, objects) ==
    [heap_in EXCEPT ![objects.bear] = BearAssumptions(heap_in[objects.base])]

ScenarioHeap(base_assump) ==
    HeapAfterBear(HeapAfterBull([object \in DictObjects |-> base_assump],
                                ScenarioObjects(base_assump)),
                  ScenarioObjects(base_assump))

-----------------------------------------------------------------------------
(***************************************************************************)
(* python-unified: the H-model (calculate_hmodel) and the /unified handler *)
(***************************************************************************)

\* Lines 1925-1938: beta capped to [0.3, 2.5], and blended with the industry
\* beta 1.2 when the original is above 2.0.
HModelBeta(original_beta) ==
    IF original_beta > 20000
    THEN Mul(Min(original_beta, 25000), 3300) + Mul(12000, 6700)
    ELSE Max(original_beta, 3000)

\* Lines 1943-1949: the half-life by market cap ($1T, $100B; money in $1M).
HModelHalfLife(market_cap) ==
    IF market_cap > 1000000 THEN 6
    ELSE IF market_cap > 100000 THEN 8
    ELSE 10

\* Lines 1952-1956.
HModelCostOfDebt(total_debt, operating_income) ==
    Max(300, Min(1000, IF total_debt > 0
                       THEN Ratio(Mul(operating_income, 200), total_debt)
                       ELSE 400))

GeneratedHModelDefaults(fundamentals, market_cap) ==
    [g_high |-> Min(Max(Get(fundamentals, "revenue_cagr_3y", 300),
                        Get(fundamentals, "fcf_cagr_3y", 300)), S),
     g_low |-> 300,
     H |-> HModelHalfLife(market_cap),
     risk_free_rate |-> DEFAULT_RISK_FREE_RATE,
     market_risk_premium |-> DEFAULT_MARKET_RISK_PREMIUM,
     beta |-> HModelBeta(Get(fundamentals, "beta", S)),
     cost_of_debt |-> HModelCostOfDebt(Get(fundamentals, "total_debt", 0),
                                       Get(fundamentals, "operating_income", 0)),
     tax_rate |-> DEFAULT_TAX_RATE,
     annual_buyback_rate |->
        IF market_cap > 0
        THEN Ratio(Get(fundamentals, "share_repurchases", 0), market_cap)
        ELSE 0]

generate_hmodel_assumptions(fundamentals, custom_in) ==
    Update(GeneratedHModelDefaults(fundamentals,
               Mul(fundamentals.current_price, fundamentals.shares_outstanding)),
           custom_in)

\* Lines 1809-1815: a current FCF that is not positive is replaced by 10% of
\* revenue.
HModelFcf(fundamentals) ==
    IF fundamentals.free_cash_flow <= 0 THEN Mul(fundamentals.revenue, 1000)
    ELSE fundamentals.free_cash_flow

\* Lines 1829-1837.
HModelWacc(fundamentals, assumptions) ==
    calculate_wacc(assumptions.risk_free_rate, assumptions.beta,
        assumptions.market_risk_premium, assumptions.cost_of_debt,
        Mul(fundamentals.current_price, fundamentals.shares_outstanding),
        fundamentals.total_debt, assumptions.tax_rate)

\* Lines 1839-1843: the terminal growth in use.
HModelLowGrowth(assumptions, wacc) ==
    IF assumptions.g_low >= wacc THEN Mul(wacc, 5000) ELSE assumptions.g_low

\* Lines 1857-1860.
HModelAdjustedShares(fundamentals, assumptions) ==
    Mul(fundamentals.shares_outstanding,
        Pow(S - Get(assumptions, "annual_buyback_rate", 0), 2 * assumptions.H))

\* One cell of calculate_sensitivity (lines 2001-2023).
HModelCellOf(fcf_current, H, net_debt, shares_outstanding, adj_g_high, adj_g_low, adj_wacc) ==
    IF adj_wacc - adj_g_low = 0 THEN Raised("ZeroDivisionError")
    ELSE [status |-> "ok",
          g_high |-> adj_g_high, g_low |-> adj_g_low, wacc |-> adj_wacc,
          price |->
             IF shares_outstanding > 0
             THEN Div(Div(Mul(fcf_current, S + adj_g_low), adj_wacc - adj_g_low)
                      + Div(Mul(fcf_current * H, adj_g_high - adj_g_low),
                            adj_wacc - adj_g_low)
                      - net_debt,
                      shares_outstanding)
             ELSE 0]

HModelCell(fcf_current, g_high, g_low, H, wacc, net_debt, shares_outstanding, delta_g, delta_wacc) ==
    HModelCellOf(fcf_current, H, net_debt, shares_outstanding,
        g_high + delta_g,
        IF g_low + delta_g \div 2 >= wacc + delta_wacc
        THEN Mul(wacc + delta_wacc, 6000) ELSE g_low + delta_g \div 2,
        wacc + delta_wacc)

\* Lines 1990-2025: growth deltas by WACC deltas.
calculate_sensitivity(fcf_current, g_high, g_low, H, wacc, net_debt, shares_outstanding) ==
    [cell \in {-200, -100, 0, 100, 200} \X {-100, -50, 0, 50, 100} |->
        HModelCell(fcf_current, g_high, g_low, H, wacc, net_debt,
                   shares_outstanding, cell[1], cell[2])]

\* The exception calculate_hmodel raises, or "none": ZeroDivisionError from
\* wacc - g_low (line 1848) or from a cell of the sensitivity matrix,
\* ValueError from line 1868.
RaisesHModelFrom(assumptions, wacc, g_low, shares_adjusted, sensitivity_matrix) ==
    IF wacc - g_low = 0 THEN "ZeroDivisionError"
    ELSE IF shares_adjusted <= 0 THEN "ValueError"
    ELSE IF \E cell \in DOMAIN sensitivity_matrix :
                sensitivity_matrix[cell].status # "ok"
    THEN "ZeroDivisionError"
    ELSE "none"

\* Lines 1845-1873, from the FCF, WACC and growth in use.
HModelValue(fundamentals, assumptions, fcf_current, wacc, g_low, shares_adjusted, sensitivity_matrix) ==
    LET pv_terminal == Div(Mul(fcf_current, S + g_low), wacc - g_low)
        pv_excess_growth ==
            Div(Mul(fcf_current * assumptions.H, assumptions.g_high - g_low),
                wacc - g_low)
        net_debt == fundamentals.total_debt - fundamentals.cash
        equity_value == pv_terminal + pv_excess_growth - net_debt
    IN  [status |-> "ok",
         model |-> "hmodel",
         price_per_share |-> Div(equity_value, shares_adjusted),
         current_price |-> fundamentals.current_price,
         upside_downside |->
            UpsideDownside(Div(equity_value, shares_adjusted),
                           fundamentals.current_price),
         enterprise_value |-> pv_terminal + pv_excess_growth,
         equity_value |-> equity_value,
         net_debt |-> net_debt,
         wacc |-> wacc,
         pv_terminal |-> pv_terminal,
         pv_excess_growth |-> pv_excess_growth,
         fcf_current |-> fcf_current,
         shares_outstanding_adjusted |-> shares_adjusted,
         assumptions |-> [assumptions EXCEPT !.g_low = g_low],
         sensitivity_matrix |-> sensitivity_matrix]

HModelFrom(fundamentals, assumptions, fcf_current, wacc, g_low, shares_adjusted, sensitivity_matrix) ==
    IF RaisesHModelFrom(assumptions, wacc, g_low, shares_adjusted,
                        sensitivity_matrix) = "none"
    THEN HModelValue(fundamentals, assumptions, fcf_current, wacc, g_low,
                     shares_adjusted, sensitivity_matrix)
    ELSE Raised(RaisesHModelFrom(assumptions, wacc, g_low, shares_adjusted,
                                 sensitivity_matrix))

HModelWith(fundamentals, assumptions, fcf_current, wacc, g_low, shares_adjusted) ==
    HModelFrom(fundamentals, assumptions, fcf_current, wacc, g_low,
        shares_adjusted,
        IF wacc - g_low = 0 THEN << >>
        ELSE calculate_sensitivity(fcf_current, assumptions.g_high, g_low,
                 assumptions.H, wacc,
                 fundamentals.total_debt - fundamentals.cash, shares_adjusted))

calculate_hmodel(fundamentals, assumptions) ==
    HModelWith(fundamentals, assumptions, HModelFcf(fundamentals),
        HModelWacc(fundamentals, assumptions),
        HModelLowGrowth(assumptions, HModelWacc(fundamentals, assumptions)),
        HModelAdjustedShares(fundamentals, assumptions))

\* Lines 2081-2092, the upside in percent.
generate_recommendation(upside) ==
    IF upside > 20 * S THEN "STRONG BUY"
    ELSE IF upside > 10 * S THEN "BUY"
    ELSE IF upside > -5 * S THEN "HOLD"
    ELSE IF upside > -15 * S THEN "SELL"
    ELSE "STRONG SELL"

\* Lines 278-282: the consensus of the prices of the models that ran.
ConsensusOf(prices, weighted_fair_value, upside_to_weighted) ==
    [weighted_fair_value |-> weighted_fair_value,
     simple_average |-> weighted_fair_value,
     range |-> [low |-> CHOOSE p \in prices : \A q \in prices : p <= q,
                high |-> CHOOSE p \in prices : \A q \in prices : p >= q],
     upside_to_weighted |-> upside_to_weighted]

\* Lines 284-337, from the results of the models that ran; the upside of
\* the consensus divides by the current price unguarded (line 285).
UnifiedData(fundamentals_in, results, weighted_fair_value) ==
    IF fundamentals_in.current_price = 0
    THEN [success |-> FALSE, error |-> "ZeroDivisionError"]
    ELSE [success |-> TRUE,
          current_price |-> fundamentals_in.current_price,
          individual_valuations |-> results,
          consensus_valuation |->
             ConsensusOf({results[i].price_per_share : i \in DOMAIN results},
                 weighted_fair_value,
                 Ratio(weighted_fair_value - fundamentals_in.current_price,
                       fundamentals_in.current_price) * 100),
          recommendation |->
             generate_recommendation(
                 Ratio(weighted_fair_value - fundamentals_in.current_price,
                       fundamentals_in.current_price) * 100)]

\* Lines 312-323: what the response shows of one model's result.
IndividualValuation(model, r) ==
    [model |-> model,
     price_per_share |-> r.price_per_share,
     enterprise_value |-> r.enterprise_value,
     upside_downside |-> r.upside_downside,
     wacc |-> r.wacc,
     assumptions |-> r.assumptions,
     projections |-> IF "projections" \in DOMAIN r THEN r.projections
                     ELSE << >>]

\* Lines 247-279: the models that did not raise, in order, and the average
\* of their prices.
UnifiedFrom(fundamentals_in, result_3stage, result_hmodel) ==
    IF result_3stage.status = "ok" /\ result_hmodel.status = "ok"
    THEN UnifiedData(fundamentals_in,
             <<IndividualValuation("3stage", result_3stage),
               IndividualValuation("hmodel", result_hmodel)>>,
             (result_3stage.price_per_share + result_hmodel.price_per_share)
             \div 2)
    ELSE IF result_3stage.status = "ok"
    THEN UnifiedData(fundamentals_in,
                     <<IndividualValuation("3stage", result_3stage)>>,
                     result_3stage.price_per_share)
    ELSE IF result_hmodel.status = "ok"
    THEN UnifiedData(fundamentals_in,
                     <<IndividualValuation("hmodel", result_hmodel)>>,
                     result_hmodel.price_per_share)
    ELSE [success |-> FALSE, error |-> "Both DCF models failed"]

\* POST /unified with the fundamentals in the request.
run_unified_dcf(fundamentals_in, custom_in) ==
    UnifiedFrom(fundamentals_in,
        calculate_3stage_dcf(fundamentals_in,
            generate_3stage_assumptions(fundamentals_in, custom_in)),
        calculate_hmodel(fundamentals_in,
            generate_hmodel_assumptions(fundamentals_in, custom_in)))

-----------------------------------------------------------------------------
(***************************************************************************)
(* python-dcf: the /dcf handler (run_dcf)                                  *)
(***************************************************************************)

\* The scenario valuations in the handler's order, up to the first that
\* raises (lines 141-152): the results so far and the exception.
RECURSIVE DcfScenarioRuns(_, _, _, _)
DcfScenarioRuns(snapshot_in, assumptions_in, requested, n) ==
    IF n = 0 THEN [results |-> << >>, error |-> "none"]
    ELSE LET before == DcfScenarioRuns(snapshot_in, assumptions_in, requested, n - 1)
             name == ScenarioNames[n]
             r == calculate_dcf(snapshot_in,
                      adjust_assumptions_for_scenario(assumptions_in, name))
         IN  IF before.error # "none" \/ name \notin requested THEN before
             ELSE IF r.status = "ok"
             THEN [before EXCEPT !.results = (name :> r) @@ @]
             ELSE [before EXCEPT !.error = r.error]

\* One cell of a sensitivity grid, from calculate_dcf's outcome r on the
\* adjusted assumptions: the cell's upside against the current price
\* divides by it unguarded (lines 612, 624, 636, 659, 674).
SensitivityCellOf(snapshot_in, adj_assumptions, r) ==
    IF r.status # "ok" THEN r
    ELSE IF snapshot_in.current_price = 0 THEN Raised("ZeroDivisionError")
    ELSE [status |-> "ok",
          growth_rate |-> adj_assumptions.revenue_growth_years_1_5,
          ebitda_margin |-> adj_assumptions.ebitda_margin_target,
          terminal_growth |-> adj_assumptions.terminal_growth_rate,
          terminal_growth_used |-> r.terminal_growth,
          wacc |-> r.wacc,
          price_per_share |-> r.price_per_share,
          upside_downside |->
              Ratio(r.price_per_share - snapshot_in.current_price,
                    snapshot_in.current_price) * 100]

SensitivityCell(snapshot_in, adj_assumptions) ==
    SensitivityCellOf(snapshot_in, adj_assumptions,
                      calculate_dcf(snapshot_in, adj_assumptions))

\* Lines 603-613, 615-625, 627-637, 639-660, 662-675: the adjusted
\* assumptions of each grid, by delta.
RevenueGrowthCase(base_assumptions, delta) ==
    [base_assumptions EXCEPT !.revenue_growth_years_1_5 = @ + delta]

MarginCase(base_assumptions, delta) ==
    [base_assumptions EXCEPT !.ebitda_margin_target = Max(@ + delta, 500)]

WaccCase(base_assumptions, delta) ==
    [base_assumptions EXCEPT !.risk_free_rate = @ + delta]

TerminalGrowthCase(base_assumptions, delta) ==
    LET adj == [base_assumptions EXCEPT
                   !.terminal_growth_rate = Max(@ + delta, 100)]
        wacc == DcfWaccOf(adj)
    IN  IF adj.terminal_growth_rate >= wacc
        THEN [adj EXCEPT !.terminal_growth_rate = Mul(wacc, 5000)]
        ELSE adj

TwoWayCase(base_assumptions, growth_delta, margin_delta) ==
    MarginCase(RevenueGrowthCase(base_assumptions, growth_delta), margin_delta)

generate_sensitivity_analysis(snapshot_in, base_assumptions) ==
    [revenue_growth_sensitivity |->
        [delta \in {-500, 0, 500} |->
            SensitivityCell(snapshot_in, RevenueGrowthCase(base_assumptions, delta))],
     margin_sensitivity |->
        [delta \in {-200, 0, 200} |->
            SensitivityCell(snapshot_in, MarginCase(base_assumptions, delta))],
     wacc_sensitivity |->
        [delta \in {-100, 0, 100} |->
            SensitivityCell(snapshot_in, WaccCase(base_assumptions, delta))],
     terminal_growth_sensitivity |->
        [delta \in {-100, 0, 100} |->
            SensitivityCell(snapshot_in, TerminalGrowthCase(base_assumptions, delta))],
     two_way_sensitivity |->
        [cell \in {-300, 0, 300} \X {-200, 0, 200} |->
            SensitivityCell(snapshot_in,
                TwoWayCase(base_assumptions, cell[1], cell[2]))]]

\* Whether some cell of the grids raised: the exception then leaves
\* generate_sensitivity_analysis.
SensitivityRaises(grids) ==
    \E g \in DOMAIN grids : \E c \in DOMAIN grids[g] : grids[g][c].status # "ok"

NoSensitivities == [revenue_growth_sensitivity |-> << >>]

\* The response (lines 141-185), from the scenario runs and the grids.
DcfResponse(assumptions_gen, runs, with_grids, grids) ==
    IF runs.error # "none"
    THEN [success |-> FALSE, error |-> runs.error]
    ELSE IF with_grids /\ SensitivityRaises(grids)
    THEN [success |-> FALSE, error |-> "sensitivity"]
    ELSE [success |-> TRUE,
          assumptions |-> assumptions_gen,
          results |-> runs.results,
          sensitivities |-> IF with_grids THEN grids ELSE NoSensitivities,
          summary |-> generate_summary(runs.results)]

\* The handler, from the assumptions it generated (line 134).
RunDcfFrom(snapshot_in, assumptions_gen, requested, include_sensitivities) ==
    DcfResponse(assumptions_gen,
        DcfScenarioRuns(snapshot_in, assumptions_gen, requested, 3),
        include_sensitivities /\ "base" \in requested,
        generate_sensitivity_analysis(snapshot_in, assumptions_gen))

run_dcf(snapshot_in, custom_in, requested, include_sensitivities) ==
    RunDcfFrom(snapshot_in, generate_dcf_assumptions(snapshot_in, custom_in),
               requested, include_sensitivities)


-----------------------------------------------------------------------------
(***************************************************************************)
(* The state machine: one request to one of the two services, or a caller  *)
(* of their valuation functions.                                           *)
(***************************************************************************)

VARIABLES
    service,            \* "unified" or "dcf": the service the request is for
    stage,              \* how far the request has come
    provider,           \* how the market-data provider answered the request
    fundamentals,       \* unified: the FundamentalsSnapshot of the request
    custom,             \* unified: the caller's overrides
    probabilities,      \* unified: the probabilities of a /scenarios request
    assumptions,        \* unified: the AssumptionSet object, once it exists
    result,             \* unified: what the last calculate_3stage_dcf returned
    first_result,       \* unified: what the first call on this object returned
    calls,              \* unified: calls of calculate_3stage_dcf so far
    scenario_response,  \* unified: the response of /scenarios
    unified_response,   \* unified: the response of /unified
    received,           \* unified: the caller's snapshot and overrides as
                        \* they were when the caller passed them
    snapshot,           \* python-dcf: the snapshot of the request
    dcf_custom,         \* python-dcf: the caller's overrides
    dcf_request,        \* python-dcf: scenarios and include_sensitivities
    dcf_assumptions,    \* python-dcf: the generated assumptions
    dcf_result,         \* python-dcf: what calculate_dcf returned
    dcf_response,       \* python-dcf: the response of /dcf
    heap,               \* /scenarios: the assumption dicts, by object
    scenarios,          \* /scenarios: the object of each scenario name
    run_pc,             \* /scenarios: where each scenario's run stands
    run_locals,         \* /scenarios: the values each run read into locals
    run_result,         \* /scenarios: results[name]
    reads,              \* /scenarios: the objects each run has read
    writes              \* /scenarios: the objects each run has written

vars == <<service, stage, provider, fundamentals, custom, probabilities, assumptions,
          result, first_result, calls, scenario_response, unified_response,
          received, snapshot, dcf_custom, dcf_request, dcf_assumptions, dcf_result,
          dcf_response, heap, scenarios, run_pc, run_locals, run_result,
          reads, writes>>

scenario_vars == <<heap, scenarios, run_pc, run_locals, run_result, reads,
                   writes>>

unified_vars == <<fundamentals, custom, probabilities, assumptions, result,
                  first_result, calls, scenario_response, unified_response,
                  received>>

dcf_vars == <<snapshot, dcf_custom, dcf_request, dcf_assumptions, dcf_result,
              dcf_response>>

MaxCalls == 2       \* calls of calculate_3stage_dcf on one assumptions object

NoDict == << >>     \* an empty dict, or a dict that does not exist yet

ScenarioRuns == {"base", "bull", "bear"}

\* A FundamentalsSnapshot of the unified service.  Money in $1M, shares in
\* units of 1/S.
FundamentalsOf(revenue, debt, price, shares, sector, growth) ==
    [ticker |-> "TEST",
     revenue |-> revenue,
     ebitda_margin |-> 2500,
     gross_margin |-> 4500,
     operating_income |-> 4000,
     free_cash_flow |-> 3000,
     cash |-> 2000,
     total_debt |-> debt,
     current_price |-> price,
     shares_outstanding |-> shares,
     market_cap |-> Mul(price, shares),
     sector |-> sector,
     economic_moat |-> "narrow",
     revenue_cagr_3y |-> growth,
     analyst_revenue_growth_3y |-> growth,
     capex_to_revenue_ratio |-> 400,
     capex_accelerating |-> FALSE,
     beta |-> 12000,
     share_repurchases |-> 0]

\* The snapshots of the unified service: a company with $20B revenue, with
\* and without shares, market price and debt, in two sectors, growing or
\* shrinking; and a listed one that reports no revenue, a negative one, or
\* $3T of it; and one that burns cash.
FundamentalsInputs ==
    { FundamentalsOf(20000, debt, price, shares, sector, growth) :
        debt \in {0, 10000}, price \in {0, 5000}, shares \in {0, 10 * S},
        sector \in {"Technology", "Utilities"}, growth \in {-1000, 800} }
    \cup
    { FundamentalsOf(revenue, 0, 5000, 10 * S, sector, 800) :
        revenue \in {0, -1000, 3000000},
        sector \in {"Technology", "Utilities"} }
    \cup
    { [FundamentalsOf(20000, 0, 5000, 10 * S, "Technology", 800)
          EXCEPT !.free_cash_flow = -500] }
    \cup
    { [FundamentalsOf(20000, 0, 5000, 10 * S, sector, 800)
          EXCEPT !.ebitda_margin = margin] :
        sector \in {"Technology", "Utilities"},
        margin \in {1500, 2900, 3500, 5000} }
    \cup
    { FundamentalsOf(20000, 10000, 10000000, S \div 2, "Technology", 800) }

\* The overrides a caller sends to the unified service.  A stage-1 growth of
\* 30.0 stands for one whose fourth power leaves the float range.
CustomInputs ==
    { NoDict,
      [terminal_growth |-> 2500],
      [terminal_growth |-> -100],
      [risk_free_rate |-> 0, beta |-> 0],
      [risk_free_rate |-> 100, beta |-> 0],
      [beta |-> 40000],
      [beta |-> 0, enable_dynamic_wacc |-> TRUE],
      [stage1_revenue_growth |-> 6000],
      [stage1_revenue_growth |-> 300000],
      [annual_buyback_rate |-> 1500, annual_debt_paydown_rate |-> 3000] }

ProbabilityInputs ==
    { [base |-> 6000, bull |-> 2000, bear |-> 2000],
      [base |-> 5000, bull |-> 5000] }

\* The snapshots of python-dcf.
SnapshotInputs ==
    { [ticker |-> "TEST",
       revenue |-> 20000,
       ebit_margin |-> 2000,
       cash |-> 2000,
       debt |-> debt,
       equity |-> 10000,
       current_price |-> price,
       shares_outstanding |-> shares,
       revenue_growth |-> growth,
       beta |-> 12000] :
        debt \in {0, 50000, 200000}, price \in {0, 2000},
        shares \in {0, 10 * S}, growth \in {-1000, 800} }

DcfCustomInputs ==
    { NoDict,
      [revenue_growth_years_1_5 |-> 0],
      [revenue_growth_years_1_5 |-> 6000],
      [revenue_growth_years_1_5 |-> 300000],
      [terminal_growth_rate |-> 1500],
      [risk_free_rate |-> 0, beta |-> 0],
      [risk_free_rate |-> -500, beta |-> 0],
      [terminal_growth_rate |-> 3500, beta |-> 8 * S],
      [ebitda_margin_target |-> 300],
      [terminal_growth_rate |-> 50] }

DcfRequestInputs ==
    { [scenarios |-> requested, include_sensitivities |-> include] :
        requested \in { {"base", "bull", "bear"}, {"base"}, {"base", "bull"},
                        {"bull"} },
        include \in BOOLEAN }

NoRequest == [scenarios |-> {}, include_sensitivities |-> FALSE]
NoResponse == [success |-> FALSE, error |-> "none"]

\* What get_mock_fundamentals_snapshot returns for any ticker (AAPL's
\* figures, lines 1090-1148).  The share count is in billions of shares and
\* the price per billion shares, which leaves every money amount as it is.
\* The fields the generator reads with a default carry that default.
get_mock_fundamentals_snapshot ==
    [ticker |-> "TEST",
     revenue |-> 383000,
     ebitda_margin |-> 3133,
     gross_margin |-> 4439,
     operating_income |-> 114000,
     free_cash_flow |-> 99000,
     cash |-> 50000,
     total_debt |-> 100000,
     current_price |-> 180000,
     shares_outstanding |-> 155000,
     market_cap |-> 2800000,
     sector |-> "Technology",
     economic_moat |-> "none",
     revenue_cagr_3y |-> 800,
     fcf_cagr_3y |-> 1200,
     analyst_revenue_growth_3y |-> 800,
     capex_to_revenue_ratio |-> 400,
     capex_accelerating |-> FALSE,
     beta |-> 12000,
     share_repurchases |-> 85000,
     data_source |-> "mock"]

\* What python-dcf's get_mock_fundamentals returns for a ticker it does not
\* list (AAPL's figures, lines 765-809), in the same units.
get_mock_fundamentals ==
    [ticker |-> "TEST",
     revenue |-> 383000,
     ebit_margin |-> 2977,
     cash |-> 50000,
     debt |-> 100000,
     equity |-> 65000,
     current_price |-> 180000,
     shares_outstanding |-> 155000,
     revenue_growth |-> 800,
     beta |-> 12000,
     data_source |-> "mock"]

\* The answers of the provider: the library is there and answers, the
\* library is missing (YFINANCE_AVAILABLE false), or the call raises.
ProviderOutcomes == {"ok", "unavailable", "raises"}

\* fetch_fundamentals_snapshot (python-unified, lines 434-761): the
\* provider's data, or the mock when the library is missing or raises.
fetch_fundamentals_snapshot(outcome, provider_data) ==
    IF outcome = "unavailable" THEN get_mock_fundamentals_snapshot
    ELSE IF outcome = "raises" THEN get_mock_fundamentals_snapshot
    ELSE provider_data

\* get_fundamentals_snapshot (python-dcf, lines 188-289).
get_fundamentals_snapshot(outcome, provider_data) ==
    IF outcome = "unavailable" THEN get_mock_fundamentals
    ELSE IF outcome = "raises" THEN get_mock_fundamentals
    ELSE provider_data

\* The snapshots the provider has for the unified service.
ProviderFundamentals ==
    { FundamentalsOf(20000, debt, 5000, 10 * S, "Technology", 800) :
        debt \in {0, 10000} }

Init ==
    /\ service \in {"unified", "dcf"}
    /\ stage = "arrived"
    /\ provider = "not_called"
    /\ fundamentals = NoDict
    /\ snapshot = NoDict
    /\ custom = NoDict
    /\ probabilities = NoDict
    /\ assumptions = NoDict
    /\ result = NoResult
    /\ first_result = NoResult
    /\ calls = 0
    /\ scenario_response = NoResponse
    /\ unified_response = NoResponse
    /\ received = NoDict
    /\ dcf_custom = NoDict
    /\ dcf_request = NoRequest
    /\ dcf_assumptions = NoDict
    /\ dcf_result = NoResult
    /\ dcf_response = NoResponse
    /\ heap = NoDict
    /\ scenarios = NoDict
    /\ run_pc = [name \in ScenarioRuns |-> "idle"]
    /\ run_locals = [name \in ScenarioRuns |-> NoDict]
    /\ run_result = [name \in ScenarioRuns |-> NoResult]
    /\ reads = [name \in ScenarioRuns |-> {}]
    /\ writes = [name \in ScenarioRuns |-> {}]

\* A request of the unified service that carries its fundamentals, or a
\* caller that holds them: the provider is not asked (lines 128, 244, 372).
ReceiveFundamentals ==
    /\ service = "unified" /\ stage = "arrived"
    /\ fundamentals' \in FundamentalsInputs
    /\ stage' = "request"
    /\ UNCHANGED <<service, provider, custom, probabilities, assumptions,
                   result, first_result, calls, scenario_response,
                   unified_response>>
    /\ UNCHANGED dcf_vars
    /\ UNCHANGED scenario_vars
    /\ UNCHANGED received

\* A request of the unified service without fundamentals: the handler
\* fetches the snapshot (lines 129, 245, 373).
FetchFundamentalsSnapshot ==
    /\ service = "unified" /\ stage = "arrived"
    /\ \E outcome \in ProviderOutcomes, provider_data \in ProviderFundamentals :
          /\ provider' = outcome
          /\ fundamentals' = fetch_fundamentals_snapshot(outcome, provider_data)
    /\ stage' = "request"
    /\ UNCHANGED <<service, custom, probabilities, assumptions, result,
                   first_result, calls, scenario_response, unified_response>>
    /\ UNCHANGED dcf_vars
    /\ UNCHANGED scenario_vars
    /\ UNCHANGED received

\* python-dcf: the handler, or a caller of calculate_dcf, gets the snapshot
\* of the ticker (line 135).
GetFundamentalsSnapshot ==
    /\ service = "dcf" /\ stage = "arrived"
    /\ \E outcome \in ProviderOutcomes, provider_data \in SnapshotInputs :
          /\ provider' = outcome
          /\ snapshot' = get_fundamentals_snapshot(outcome, provider_data)
    /\ stage' = "request"
    /\ UNCHANGED <<service, dcf_custom, dcf_request, dcf_assumptions,
                   dcf_result, dcf_response>>
    /\ UNCHANGED unified_vars
    /\ UNCHANGED scenario_vars

\* The service builds the assumptions of a request (run_unified_dcf, line
\* 251; run_scenarios, line 375).
Generate3StageAssumptions ==
    /\ service = "unified" /\ stage = "request"
    /\ \E c \in CustomInputs :
          /\ received' = [fundamentals |-> fundamentals, custom |-> c]
          /\ assumptions' = generate_3stage_assumptions(fundamentals, c)
          /\ fundamentals' = FundamentalsAfterGenerate(fundamentals, c)
          /\ custom' = CustomAfterGenerate(fundamentals, c)
    /\ stage' = "generated"
    /\ UNCHANGED <<service, provider, probabilities, result, first_result,
                   calls, scenario_response, unified_response>>
    /\ UNCHANGED dcf_vars
    /\ UNCHANGED scenario_vars

\* A caller of calculate_3stage_dcf builds the assumptions object itself: a
\* generated set with its own values written over it afterwards.
HandAssumptions ==
    /\ service = "unified" /\ stage = "request"
    /\ \E c \in CustomInputs :
          /\ received' = [fundamentals |-> fundamentals, custom |-> c]
          /\ custom' = c
          /\ assumptions' =
                Update(generate_3stage_assumptions(fundamentals, NoDict), c)
    /\ fundamentals' = FundamentalsAfterGenerate(fundamentals, NoDict)
    /\ stage' = "handed"
    /\ UNCHANGED <<service, provider, probabilities, result, first_result,
                   calls, scenario_response, unified_response>>
    /\ UNCHANGED dcf_vars
    /\ UNCHANGED scenario_vars

\* One call of calculate_3stage_dcf on the assumptions object: its return
\* value or exception, and its write to the object (line 1271).
Calculate3StageDcf ==
    /\ service = "unified" /\ stage \in {"generated", "handed"}
    /\ calls < MaxCalls
    /\ result' = calculate_3stage_dcf(fundamentals, assumptions)
    /\ first_result' = IF calls = 0 THEN result' ELSE first_result
    /\ assumptions' = AssumptionsAfterRun(fundamentals, assumptions)
    /\ fundamentals' = FundamentalsAfterRun(fundamentals, assumptions)
    /\ calls' = calls + 1
    /\ UNCHANGED <<service, provider, stage, custom, probabilities,
                   scenario_response, unified_response, received>>
    /\ UNCHANGED dcf_vars
    /\ UNCHANGED scenario_vars

\* POST /scenarios.
RunScenarios ==
    /\ service = "unified" /\ stage = "request"
    /\ \E c \in CustomInputs, p \in ProbabilityInputs :
          /\ custom' = c
          /\ probabilities' = p
          /\ scenario_response' = run_scenarios(fundamentals, c, p)
    /\ stage' = "responded"
    /\ UNCHANGED <<service, provider,
                   fundamentals, assumptions, result, first_result,
                   calls, unified_response>>
    /\ UNCHANGED dcf_vars
    /\ UNCHANGED scenario_vars
    /\ UNCHANGED received

\* POST /unified: both models on the snapshot, and their consensus.
RunUnifiedDcf ==
    /\ service = "unified" /\ stage = "request"
    /\ \E c \in CustomInputs :
          /\ custom' = c
          /\ unified_response' = run_unified_dcf(fundamentals, c)
    /\ stage' = "consensus"
    /\ UNCHANGED <<service, provider,
                   fundamentals, probabilities, assumptions, result,
                   first_result, calls, scenario_response>>
    /\ UNCHANGED dcf_vars
    /\ UNCHANGED scenario_vars
    /\ UNCHANGED received

\* python-dcf: generate_dcf_assumptions for the snapshot.
GenerateDcfAssumptions ==
    /\ service = "dcf" /\ stage = "request"
    /\ \E c \in DcfCustomInputs :
          /\ dcf_custom' = c
          /\ dcf_assumptions' = generate_dcf_assumptions(snapshot, c)
    /\ stage' = "generated"
    /\ UNCHANGED <<service, provider,
                   snapshot, dcf_request, dcf_result, dcf_response>>
    /\ UNCHANGED unified_vars
    /\ UNCHANGED scenario_vars

\* python-dcf: one call of calculate_dcf.
CalculateDcf ==
    /\ service = "dcf" /\ stage = "generated"
    /\ dcf_result' = calculate_dcf(snapshot, dcf_assumptions)
    /\ stage' = "valued"
    /\ UNCHANGED <<service, provider,
                   snapshot, dcf_custom, dcf_request, dcf_assumptions,
                   dcf_response>>
    /\ UNCHANGED unified_vars
    /\ UNCHANGED scenario_vars

\* POST /dcf.
RunDcf ==
    /\ service = "dcf" /\ stage = "request"
    /\ \E c \in DcfCustomInputs, r \in DcfRequestInputs :
          /\ dcf_custom' = c
          /\ dcf_request' = r
          /\ dcf_response' = run_dcf(snapshot, c, r.scenarios,
                                     r.include_sensitivities)
    /\ stage' = "responded"
    /\ UNCHANGED <<service, provider,
                   snapshot, dcf_assumptions, dcf_result>>
    /\ UNCHANGED unified_vars
    /\ UNCHANGED scenario_vars

\* POST /scenarios, step by step.  The handler builds the three assumption
\* dicts (lines 375-395).
BuildScenarios ==
    /\ service = "unified" /\ stage = "request"
    /\ \E c \in CustomInputs :
          /\ custom' = c
          /\ heap' = ScenarioHeap(generate_3stage_assumptions(fundamentals, c))
          /\ scenarios' =
                ScenarioObjects(generate_3stage_assumptions(fundamentals, c))
    /\ stage' = "scenarios"
    /\ UNCHANGED <<service, provider, fundamentals, probabilities, assumptions,
                   result, first_result, calls, scenario_response,
                   unified_response>>
    /\ UNCHANGED <<run_pc, run_locals, run_result, reads, writes>>
    /\ UNCHANGED dcf_vars
    /\ UNCHANGED received

\* A run of calculate_3stage_dcf for one scenario reads the snapshot and its
\* assumptions dict into locals and computes the WACC (lines 1218-1264).
BeginScenario(name) ==
    /\ service = "unified" /\ stage = "scenarios" /\ run_pc[name] = "idle"
    /\ run_locals' = [run_locals EXCEPT ![name] = heap[scenarios[name]]]
    /\ reads' = [reads EXCEPT ![name] = {SnapshotObject, scenarios[name]}]
    /\ run_pc' = [run_pc EXCEPT ![name] = "started"]
    /\ UNCHANGED <<service, stage, provider>>
    /\ UNCHANGED unified_vars
    /\ UNCHANGED <<heap, scenarios, run_result, writes>>
    /\ UNCHANGED dcf_vars

\* The run validates the terminal growth, writes a changed one back into
\* its dict (lines 1266-1271) and values the scenario from its locals
\* (lines 1273-1574); the handler stores the result, or None (397-403).
FinishScenario(name) ==
    /\ service = "unified" /\ stage = "scenarios" /\ run_pc[name] = "started"
    /\ LET after == AssumptionsAfterRun(fundamentals, run_locals[name])
           written == after.terminal_growth # run_locals[name].terminal_growth
       IN  /\ heap' = IF written
                      THEN [heap EXCEPT ![scenarios[name]].terminal_growth =
                                after.terminal_growth]
                      ELSE heap
           /\ writes' = IF written
                        THEN [writes EXCEPT ![name] = {scenarios[name]}]
                        ELSE writes
    /\ run_result' = [run_result EXCEPT ![name] =
                         ScenarioResult(fundamentals, run_locals[name])]
    /\ run_pc' = [run_pc EXCEPT ![name] = "done"]
    /\ UNCHANGED <<service, stage, provider>>
    /\ UNCHANGED unified_vars
    /\ UNCHANGED <<scenarios, run_locals, reads>>
    /\ UNCHANGED dcf_vars

\* The handler weighs the three results and answers (lines 405-424).
CollectScenarios ==
    /\ service = "unified" /\ stage = "scenarios"
    /\ \A name \in ScenarioRuns : run_pc[name] = "done"
    /\ \E p \in ProbabilityInputs :
          /\ probabilities' = p
          /\ scenario_response' = ScenarioResponse(run_result, p)
    /\ stage' = "responded"
    /\ UNCHANGED <<service, provider, fundamentals, custom, assumptions,
                   result, first_result, calls, unified_response>>
    /\ UNCHANGED scenario_vars
    /\ UNCHANGED dcf_vars
    /\ UNCHANGED received

Next ==
    \/ ReceiveFundamentals
    \/ FetchFundamentalsSnapshot
    \/ GetFundamentalsSnapshot
    \/ Generate3StageAssumptions
    \/ HandAssumptions
    \/ Calculate3StageDcf
    \/ RunScenarios
    \/ RunUnifiedDcf
    \/ GenerateDcfAssumptions
    \/ CalculateDcf
    \/ RunDcf
    \/ BuildScenarios
    \/ \E name \in ScenarioRuns : BeginScenario(name)
    \/ \E name \in ScenarioRuns : FinishScenario(name)
    \/ CollectScenarios

Spec == Init /\ [][Next]_vars

-----------------------------------------------------------------------------
(***************************************************************************)
(* The properties.                                                         *)
(***************************************************************************)

\* A call of calculate_3stage_dcf has returned or raised.
Valued3Stage == service = "unified" /\ calls > 0

\* A call of python-dcf's calculate_dcf has returned or raised.
ValuedDcf == service = "dcf" /\ stage = "valued"

\* C1: for a snapshot whose shares_outstanding is 0 or negative, a DCF run
\* (calculate_3stage_dcf, calculate_dcf) ends in an error and returns no
\* result carrying a price_per_share.
C1_NoPriceWithoutShares ==
    /\ (Valued3Stage /\ fundamentals.shares_outstanding <= 0)
          => result.status = "error"
    /\ (ValuedDcf /\ snapshot.shares_outstanding <= 0)
          => dcf_result.status = "error"

\* C2: in every result calculate_3stage_dcf returns, the terminal growth
\* recorded in the result's assumptions, and the one of its terminal year,
\* is strictly less than the WACC recorded in the same result.
C2_TerminalGrowthBelowWacc ==
    (Valued3Stage /\ result.status = "ok")
        => /\ result.assumptions.terminal_growth < result.wacc
           /\ result.terminal_year.growth_rate < result.wacc

\* C3: the WACC used by every unified valuation is within [0.05, 0.25],
\* also when equity plus debt is worth zero and when enable_dynamic_wacc
\* shifts the base WACC.
C3_WaccWithinBand ==
    (Valued3Stage /\ result.status = "ok")
        => (WaccFloor <= result.wacc /\ result.wacc <= WaccCap)

\* The growth rate the 3-stage projector is to apply in year y: the stage-1
\* rate, decayed by 0.92^(y-1) when it exceeds 25%, then the rate
\* interpolated towards the stage-2 ending growth.
C4_EffectiveGrowth(a, y) ==
    IF y <= 5
    THEN IF a.stage1_revenue_growth > GrowthDecayThreshold
         THEN Mul(a.stage1_revenue_growth, Pow(GrowthDecayFactor, y - 1))
         ELSE a.stage1_revenue_growth
    ELSE a.stage1_revenue_growth
         - Mul(a.stage1_revenue_growth - a.stage2_ending_growth, (y - 5) * 2000)

\* Equal within the rounding of the number representation (0.1% and two
\* units), for values the code computes along two different routes.
Close(x, y) == Abs(x - y) <= 2 + Abs(y) \div 1000

AllScenariosValued ==
    \A n \in {"base", "bull", "bear"} : scenario_response.scenarios[n].status = "ok"

\* C5: for any snapshot and base assumptions, the bull and bear sets derived
\* with the standard deltas give bull price >= base price >= bear price,
\* in /scenarios of the unified service and in python-dcf.
C5_ScenarioOrdering ==
    /\ (service = "unified" /\ stage = "responded" /\ AllScenariosValued) =>
          /\ scenario_response.scenarios["bull"].price_per_share
                >= scenario_response.scenarios["base"].price_per_share
          /\ scenario_response.scenarios["base"].price_per_share
                >= scenario_response.scenarios["bear"].price_per_share
    /\ (service = "dcf" /\ stage = "responded" /\ dcf_response.success
        /\ dcf_request.scenarios = {"base", "bull", "bear"}) =>
          /\ dcf_response.results["bull"].price_per_share
                >= dcf_response.results["base"].price_per_share
          /\ dcf_response.results["base"].price_per_share
                >= dcf_response.results["bear"].price_per_share

\* Two returns of calculate_3stage_dcf are the same valuation.
SameValuation(r1, r2) ==
    /\ r1.status = r2.status
    /\ r1.status = "error" => r1.error = r2.error
    /\ r1.status = "ok" =>
          /\ r1.wacc = r2.wacc
          /\ r1.terminal_year.growth_rate = r2.terminal_year.growth_rate
          /\ r1.enterprise_value = r2.enterprise_value
          /\ r1.price_per_share = r2.price_per_share

\* C6: calling calculate_3stage_dcf again with the same snapshot and the same
\* assumptions object returns the same valuation as the first call.
C6_Idempotent ==
    (Valued3Stage /\ calls >= 2) => SameValuation(first_result, result)

\* The terminal growth rates compared for C7.
TerminalGrowthInputs == {300, 900, 1000}

\* The price per share of the snapshot under the assumptions with terminal
\* growth g.
PriceAtTerminalGrowth(g) ==
    calculate_3stage_dcf(fundamentals,
        [assumptions EXCEPT !.terminal_growth = g]).price_per_share

\* C7: with the snapshot and all other assumptions fixed, of two terminal
\* growth rates g1 < g2 both strictly below WACC, g2 gives the strictly
\* greater fair value per share.
C7_MonotoneInTerminalGrowth ==
    (service = "unified" /\ stage \in {"generated", "handed"}) =>
        \A g1, g2 \in TerminalGrowthInputs :
            (/\ g1 < g2
             /\ g2 < Wacc3Stage(fundamentals, assumptions)
             /\ Raises3Stage(fundamentals, assumptions) = "none")
                => PriceAtTerminalGrowth(g2) > PriceAtTerminalGrowth(g1)

\* The scenarios of a /scenarios response that produced a result.
ScenariosValued ==
    {n \in {"base", "bull", "bear"} : scenario_response.scenarios[n].status = "ok"}

\* Price times weight of a scenario that produced a result, and its weight;
\* nothing for one that did not.
WeightedPrice(present, price, weight, n) ==
    IF n \in present THEN Mul(price[n], weight[n]) ELSE 0

WeightOf(present, weight, n) == IF n \in present THEN weight[n] ELSE 0

\* The weighted fair value over exactly the scenarios in present.
WeightedOver(present, price, weight) ==
    Div(WeightedPrice(present, price, weight, "base")
        + WeightedPrice(present, price, weight, "bull")
        + WeightedPrice(present, price, weight, "bear"),
        WeightOf(present, weight, "base") + WeightOf(present, weight, "bull")
        + WeightOf(present, weight, "bear"))

\* The fixed weights of python-dcf's summary (line 696).
SummaryWeights == [base |-> 5000, bull |-> 2500, bear |-> 2500]

\* C8: the probability-weighted fair value is the sum of price x probability
\* over the scenarios that produced a result, divided by the sum of the
\* probabilities of exactly those; a scenario not requested or failed is in
\* neither sum and is never replaced by zero or a substitute price.
C8_WeightedOverPresentOnly ==
    /\ (service = "unified" /\ stage = "responded"
        /\ scenario_response.has_weighted) =>
          scenario_response.weighted_fair_value =
              WeightedOver(ScenariosValued,
                  [n \in ScenariosValued |->
                      scenario_response.scenarios[n].price_per_share],
                  [n \in {"base", "bull", "bear"} |-> Get(probabilities, n, 0)])
    /\ (service = "dcf" /\ stage = "responded" /\ dcf_response.success) =>
          Close(dcf_response.summary.probability_weighted_value,
                WeightedOver(DOMAIN dcf_response.results,
                    [n \in DOMAIN dcf_response.results |->
                        dcf_response.results[n].price_per_share],
                    SummaryWeights))

\* The valuation of a scenario of the /dcf request raises.
DcfScenarioRaises(n) ==
    calculate_dcf(snapshot,
        adjust_assumptions_for_scenario(
            generate_dcf_assumptions(snapshot, dcf_custom), n)).status = "error"

\* C9: when the valuation of one scenario raises, the scenario request still
\* succeeds and returns the results of the other scenarios.
C9_ScenarioFailureIsolated ==
    /\ (service = "unified" /\ stage = "responded") => scenario_response.success
    /\ (/\ service = "dcf" /\ stage = "responded"
        /\ \E n \in dcf_request.scenarios : DcfScenarioRaises(n)
        /\ \E n \in dcf_request.scenarios : ~DcfScenarioRaises(n)) =>
          /\ dcf_response.success
          /\ \A n \in dcf_request.scenarios :
                ~DcfScenarioRaises(n) => n \in DOMAIN dcf_response.results

\* C10: every key of the caller's overrides has exactly the override's value
\* in the AssumptionSet the generator returns.
C10_OverridesPreserved ==
    (service = "unified" /\ stage = "generated" /\ calls = 0) =>
        \A k \in DOMAIN custom : assumptions[k] = custom[k]

\* The present value of the terminal value as first computed (line 1490),
\* and its share of the enterprise value first computed (line 1497).
C11_OriginalPvTerminalValue ==
    Div(result.terminal_value, Pow(S + result.wacc, 10))

C11_OriginalShare ==
    IF result.sum_pv_fcf_10y + C11_OriginalPvTerminalValue > 0
    THEN Ratio(C11_OriginalPvTerminalValue,
               result.sum_pv_fcf_10y + C11_OriginalPvTerminalValue)
    ELSE 0

\* C11: when the share PV(terminal value) / enterprise value first computed
\* exceeds 0.80, the returned enterprise value is the sum of PV(FCF) plus 0.8
\* times the original PV(terminal value) and the haircut warning is set;
\* when the share is above 0.75 and at most 0.80 the enterprise value is
\* unchanged and the softer warning is set; otherwise no dominance warning
\* is set.
C11_DominanceSafeguard ==
    (Valued3Stage /\ result.status = "ok") =>
        IF C11_OriginalShare > 8000
        THEN /\ result.enterprise_value =
                    result.sum_pv_fcf_10y + Mul(C11_OriginalPvTerminalValue, 8000)
             /\ result.warnings.terminal_dominance = "haircut"
        ELSE IF C11_OriginalShare > 7500
        THEN /\ result.enterprise_value =
                    result.sum_pv_fcf_10y + C11_OriginalPvTerminalValue
             /\ result.warnings.terminal_dominance = "review"
        ELSE result.warnings.terminal_dominance = "none"

\* A run whose terminal value was cut: it was more than 80% of the
\* enterprise value first computed.
C11_Witness ==
    /\ Valued3Stage /\ result.status = "ok"
    /\ C11_OriginalShare > 8000
    /\ result.warnings.terminal_dominance = "haircut"
    /\ result.enterprise_value
          < result.sum_pv_fcf_10y + C11_OriginalPvTerminalValue

\* The terminal-year FCF as computed at line 1460, before the floor.
C12_TerminalFcfRaw ==
    TerminalYear(fundamentals, result.assumptions,
                 result.terminal_year.growth_rate,
                 result.projections[10].revenue).fcf_raw

\* C12: whenever the computed terminal-year FCF is <= 0, the terminal value
\* is computed from a substitute FCF of 5% of the terminal-year revenue, and
\* the terminal value of the result is not negative, for any snapshot
\* revenue (zero and negative included).
C12_TerminalFcfFloor ==
    (Valued3Stage /\ result.status = "ok" /\ C12_TerminalFcfRaw <= 0) =>
        /\ result.terminal_fcf = Mul(result.terminal_year.revenue, 500)
        /\ result.terminal_value >= 0

\* The price per share before the cap (line 1521) and the market cap it
\* implies (line 1524), from the result's equity value and final shares.
C13_UncappedPrice == Div(result.equity_value, result.final_shares)

C13_ImpliedMarketCap == Mul(C13_UncappedPrice, result.final_shares)

C14_ZeroPriceUpside ==
    /\ (Valued3Stage /\ fundamentals.current_price = 0 /\ result.status = "ok")
          => result.upside_downside = 0
    /\ (ValuedDcf /\ snapshot.current_price = 0 /\ dcf_result.status = "ok")
          => dcf_result.upside_downside = 0
    /\ (/\ service = "dcf" /\ stage = "responded"
        /\ snapshot.current_price = 0
        /\ \A n \in dcf_request.scenarios : ~DcfScenarioRaises(n))
          => dcf_response.success
    /\ (/\ service = "unified" /\ stage = "consensus"
        /\ fundamentals.current_price = 0
        /\ (unified_response.success
            \/ unified_response.error # "Both DCF models failed"))
          => /\ unified_response.success
             /\ unified_response.consensus_valuation.upside_to_weighted = 0

\* C15: if acquiring the fundamentals snapshot fails (the provider library
\* is unavailable, or the provider raises), the valuation request fails and
\* no valuation is computed: the core never runs on a substituted snapshot.
C15_NoValuationOnSubstitute ==
    provider \in {"unavailable", "raises"} =>
        /\ result = NoResult
        /\ ~scenario_response.success
        /\ ~unified_response.success
        /\ dcf_result = NoResult
        /\ ~dcf_response.success

\* The WACC of the result before the clamp of lines 2048-2056, when the
\* clamp is reached (equity plus debt is not worth zero).
C16_UnclampedWacc ==
    Mul(Ratio(Mul(fundamentals.current_price, fundamentals.shares_outstanding),
              Mul(fundamentals.current_price, fundamentals.shares_outstanding)
              + fundamentals.total_debt),
        result.assumptions.risk_free_rate
        + Mul(result.assumptions.beta, result.assumptions.market_risk_premium))
    + Mul(Mul(Ratio(fundamentals.total_debt,
                    Mul(fundamentals.current_price,
                        fundamentals.shares_outstanding)
                    + fundamentals.total_debt),
              result.assumptions.cost_of_debt),
          S - result.assumptions.tax_rate)

C16_WaccClamped ==
    /\ Mul(fundamentals.current_price, fundamentals.shares_outstanding)
       + fundamentals.total_debt # 0
    /\ (C16_UnclampedWacc > WaccCap \/ C16_UnclampedWacc < WaccFloor)

\* The assumptions object as the first call received it.
C16_AssumptionsReceived ==
    IF stage = "handed"
    THEN Update(generate_3stage_assumptions(fundamentals, NoDict), custom)
    ELSE generate_3stage_assumptions(fundamentals, custom)

C16_TerminalGrowthReduced ==
    /\ calls = 1
    /\ result.terminal_year.growth_rate < C16_AssumptionsReceived.terminal_growth

\* The run of the result auto-corrected or substituted a value.
C16_Corrected ==
    \/ C16_WaccClamped
    \/ C16_TerminalGrowthReduced
    \/ C12_TerminalFcfRaw <= 0
    \/ C13_ImpliedMarketCap > MaxReasonableMarketCap

\* C16: whenever a run auto-corrects or substitutes a value (WACC clamped to
\* its band, terminal growth reduced because it was >= WACC, terminal FCF
\* replaced by the revenue floor, negative current FCF replaced by the
\* revenue proxy, price scaled by the market-cap cap), the returned result
\* contains a warning entry recording that correction.
C16_CorrectionsWarned ==
    /\ (Valued3Stage /\ result.status = "ok" /\ C16_Corrected) =>
          \E k \in DOMAIN result.warnings : k # "terminal_dominance"
    /\ (/\ service = "unified" /\ stage = "consensus"
        /\ unified_response.success
        /\ fundamentals.free_cash_flow <= 0) =>
          \A i \in DOMAIN unified_response.individual_valuations :
              unified_response.individual_valuations[i].model = "hmodel"
                  => "warnings" \in
                        DOMAIN unified_response.individual_valuations[i]

\* ---------------------------------------------------------------------
\* C17 (python-dcf): the terminal_growth_rate generate_dcf_assumptions
\* returns is strictly below the WACC computed from the returned
\* assumptions, and strictly below the wacc calculate_dcf reports for them,
\* whatever the snapshot and the custom overrides.
C17_BelowEstimate ==
    dcf_assumptions.terminal_growth_rate < DcfWaccOf(dcf_assumptions)

C17_BelowReported ==
    (stage = "valued" /\ dcf_result.status = "ok")
        => dcf_assumptions.terminal_growth_rate < dcf_result.wacc

C17_TerminalGrowthBelowWacc ==
    (service = "dcf" /\ stage \in {"generated", "valued"})
        => C17_BelowEstimate /\ C17_BelowReported

\* ---------------------------------------------------------------------
\* C18 (python-dcf): for the assumption set of a request,
\* adjust_assumptions_for_scenario gives the bull scenario a
\* revenue_growth_years_1_5 strictly above the base one and the bear
\* scenario one strictly below it, also when the base growth is zero,
\* negative or above 50%.
C18_BullGrowth ==
    adjust_assumptions_for_scenario(dcf_assumptions, "bull").revenue_growth_years_1_5

C18_BearGrowth ==
    adjust_assumptions_for_scenario(dcf_assumptions, "bear").revenue_growth_years_1_5

C18_ScenarioGrowthOrdered ==
    (service = "dcf" /\ stage \in {"generated", "valued"})
        => /\ C18_BullGrowth > dcf_assumptions.revenue_growth_years_1_5
           /\ C18_BearGrowth < dcf_assumptions.revenue_growth_years_1_5

\* ---------------------------------------------------------------------
\* C19 (python-dcf): with the default generated assumptions (no custom
\* override) and any snapshot debt >= 0 over a positive equity, the wacc
\* calculate_dcf reports is strictly above the assumptions' risk_free_rate.
C19_DefaultAssumptions ==
    /\ service = "dcf" /\ stage = "valued" /\ dcf_custom = NoDict
    /\ snapshot.debt >= 0 /\ snapshot.equity > 0
    /\ dcf_result.status = "ok"

C19_WaccAboveRiskFree ==
    C19_DefaultAssumptions => dcf_result.wacc > dcf_assumptions.risk_free_rate

\* ---------------------------------------------------------------------
\* C20: the scenario runs of one /scenarios request share no mutable state.
\* Whatever the order or interleaving of the base, bull and bear runs, each
\* finished run has the result the scenario gives when it is run alone on
\* the assumption set the handler built for it, and no run has written an
\* object (the snapshot or an assumption dict) that another run has read.
C20_AloneResult(name) ==
    ScenarioResult(fundamentals,
        ScenarioAssumptions(generate_3stage_assumptions(fundamentals, custom))[name])

C20_SameAsAlone ==
    \A name \in ScenarioRuns :
        run_pc[name] = "done" => run_result[name] = C20_AloneResult(name)

C20_NoSharedWrite ==
    \A writer \in ScenarioRuns, reader \in ScenarioRuns :
        writer # reader => writes[writer] \cap reads[reader] = {}

C20_ScenarioRunsIndependent ==
    C20_SameAsAlone /\ C20_NoSharedWrite

\* All three runs are over, one of them wrote a reduced terminal growth
\* into its dict, and the bull and bear results differ from the base one.
C20_Witness ==
    /\ \A name \in ScenarioRuns : run_pc[name] = "done"
    /\ \E name \in ScenarioRuns : writes[name] # {}
    /\ \A name \in ScenarioRuns : run_result[name] # NoResult
    /\ run_result["bull"].price_per_share # run_result["base"].price_per_share
    /\ run_result["bear"].price_per_share # run_result["base"].price_per_share

\* ---------------------------------------------------------------------
\* C21: generate_3stage_assumptions and calculate_3stage_dcf never mutate
\* the snapshot or the caller's overrides: once they were passed to the
\* generator, and after every call of the projector on them (returned or
\* raised), every field of both has the value it had when it was passed.
C21_InputsNotMutated ==
    (service = "unified" /\ stage \in {"generated", "handed"})
        => /\ fundamentals = received.fundamentals
           /\ custom = received.custom

\* The projector has run twice on a snapshot with debt and with overrides:
\* once it returned and once it raised or returned again.
C21_Witness ==
    /\ service = "unified" /\ stage = "generated" /\ calls = 2
    /\ first_result.status = "ok"
    /\ fundamentals.total_debt > 0 /\ DebtPaydownRate(assumptions) > 0
    /\ custom # NoDict

\* The projector raised on the snapshot and the overrides.
C21_WitnessRaised ==
    /\ service = "unified" /\ stage = "generated" /\ calls >= 1
    /\ result.status = "error"
    /\ custom # NoDict

\* ---------------------------------------------------------------------
\* C22: in a 3-stage run the stage-2 growth declines linearly from the
\* growth applied in year 5 (after any decay) to stage2_ending_growth in
\* year 10: the growth applied in year 6 is not above that of year 5, the
\* growth applied is non-increasing over years 6..10, and year 10 applies
\* stage2_ending_growth.
C22_NotAboveYear5 ==
    result.projections[6].growth <= result.projections[5].growth

C22_NonIncreasing ==
    \A y \in 6..9 :
        result.projections[y + 1].growth <= result.projections[y].growth

C22_Stage2Declines ==
    (Valued3Stage /\ result.status = "ok")
        => /\ C22_NotAboveYear5
           /\ C22_NonIncreasing
           /\ result.projections[10].growth = assumptions.stage2_ending_growth

\* ---------------------------------------------------------------------
\* C23: margin mean reversion in the assumptions generated without
\* overrides.  A snapshot EBITDA margin above the sector norm gets a target
\* not above the current margin; a positive margin below the norm gets a
\* target not below the current margin and not above the norm; for every
\* sector, the industry adjustment included.
C23_SectorNorm == sector_margin_target(fundamentals.sector)

C23_PulledDown ==
    fundamentals.ebitda_margin > C23_SectorNorm
        => assumptions.ebitda_margin_target <= fundamentals.ebitda_margin

C23_PulledUp ==
    (0 < fundamentals.ebitda_margin /\ fundamentals.ebitda_margin < C23_SectorNorm)
        => /\ assumptions.ebitda_margin_target >= fundamentals.ebitda_margin
           /\ assumptions.ebitda_margin_target <= C23_SectorNorm

C23_MarginMeanReversion ==
    (service = "unified" /\ stage = "generated" /\ custom = NoDict)
        => C23_PulledDown /\ C23_PulledUp

\* ---------------------------------------------------------------------
\* C24: the terminal growth rate a unified 3-stage valuation uses is at
\* most the absolute ceiling of 8%, for every terminal growth it is given
\* and every WACC, also when the given rate is not below the WACC and a
\* fraction of the WACC replaces it.
C24_TerminalGrowthCeiling ==
    (Valued3Stage /\ result.status = "ok")
        => result.terminal_year.growth_rate <= TerminalGrowthCeiling

\* ---------------------------------------------------------------------
\* C25: every cell of a sensitivity grid is computed with a terminal (low)
\* growth strictly below the cell's own WACC and a non-zero WACC - growth:
\* the 5x5 grid of the H-model for every g_low and WACC a request reaches,
\* and the one-way and two-way grids of python-dcf, whose cells re-run
\* calculate_dcf.
C25_HModelGridOf(a, wacc, g_low, shares_adjusted) ==
    IF wacc - g_low = 0 \/ shares_adjusted <= 0 THEN << >>
    ELSE calculate_sensitivity(HModelFcf(fundamentals), a.g_high, g_low, a.H,
             wacc, fundamentals.total_debt - fundamentals.cash,
             shares_adjusted)

C25_HModelGridFor(a, wacc) ==
    C25_HModelGridOf(a, wacc, HModelLowGrowth(a, wacc),
                     HModelAdjustedShares(fundamentals, a))

\* The grid calculate_hmodel computes for the request, empty when the
\* valuation raises before it reaches calculate_sensitivity.
C25_HModelGrid ==
    C25_HModelGridFor(generate_hmodel_assumptions(fundamentals, custom),
        HModelWacc(fundamentals,
                   generate_hmodel_assumptions(fundamentals, custom)))

C25_HModelCells ==
    \A cell \in DOMAIN C25_HModelGrid :
        /\ C25_HModelGrid[cell].status = "ok"
        /\ C25_HModelGrid[cell].g_low < C25_HModelGrid[cell].wacc

\* The runs of calculate_dcf behind the grids of a /dcf request.
C25_DcfCases(base_assumptions) ==
    { RevenueGrowthCase(base_assumptions, delta) : delta \in {-500, 0, 500} }
    \cup { MarginCase(base_assumptions, delta) : delta \in {-200, 0, 200} }
    \cup { WaccCase(base_assumptions, delta) : delta \in {-100, 0, 100} }
    \cup { TerminalGrowthCase(base_assumptions, delta) : delta \in {-100, 0, 100} }
    \cup { TwoWayCase(base_assumptions, cell[1], cell[2]) :
             cell \in {-300, 0, 300} \X {-200, 0, 200} }

C25_DcfRunSafe(r) ==
    /\ r.status = "ok" => r.terminal_growth < r.wacc
    /\ r.status # "ok" => r.error # "ZeroDivisionError"

C25_DcfCells ==
    \A adj \in C25_DcfCases(generate_dcf_assumptions(snapshot, dcf_custom)) :
        C25_DcfRunSafe(calculate_dcf(snapshot, adj))

C25_GridReached ==
    \/ service = "unified" /\ stage = "consensus"
    \/ /\ service = "dcf" /\ stage = "responded"
       /\ dcf_request.include_sensitivities /\ "base" \in dcf_request.scenarios
       /\ (dcf_response.success \/ dcf_response.error = "sensitivity")

C25_SensitivityCellsValid ==
    /\ (service = "unified" /\ stage = "consensus") => C25_HModelCells
    /\ (C25_GridReached /\ service = "dcf") => C25_DcfCells

\* ---------------------------------------------------------------------
\* C26: capital-structure drift of a 3-stage run.  The shares after year y
\* are the initial shares times (1 - b)^y and the debt the initial debt
\* times (1 - d)^y, b the buyback rate clamped to [0, 0.10] and d the
\* paydown rate clamped to [0, 0.20]; neither grows over years 1..10; and
\* net debt and the price per share are computed from the year-10 balances.
C26_ClampedBuyback ==
    Max(0, Min(1000, Get(assumptions, "annual_buyback_rate", 0)))

C26_ClampedPaydown ==
    Max(0, Min(2000, Get(assumptions, "annual_debt_paydown_rate", 0)))

C26_Drift ==
    \A y \in 1..10 :
        /\ result.projections[y].shares_outstanding =
              Mul(IF y = 1 THEN fundamentals.shares_outstanding
                  ELSE result.projections[y - 1].shares_outstanding,
                  S - C26_ClampedBuyback)
        /\ result.projections[y].total_debt =
              Mul(IF y = 1 THEN fundamentals.total_debt
                  ELSE result.projections[y - 1].total_debt,
                  S - C26_ClampedPaydown)

C26_NonIncreasing ==
    \A y \in 1..10 :
        /\ result.projections[y].shares_outstanding
              <= IF y = 1 THEN fundamentals.shares_outstanding
                 ELSE result.projections[y - 1].shares_outstanding
        /\ result.projections[y].total_debt
              <= IF y = 1 THEN fundamentals.total_debt
                 ELSE result.projections[y - 1].total_debt

C26_FromYear10 ==
    /\ result.net_debt = result.projections[10].total_debt - fundamentals.cash
    /\ result.projections[10].shares_outstanding > 0
    /\ result.price_per_share =
          SharePrice(result.equity_value,
                     result.projections[10].shares_outstanding).price_per_share

C26_CapitalStructureDrift ==
    (Valued3Stage /\ result.status = "ok")
        => C26_Drift /\ C26_NonIncreasing /\ C26_FromYear10

\* ---------------------------------------------------------------------
\* C27: in a 3-stage run the net-working-capital change of every year y is
\* computed from the projected revenue of year y and the projected revenue
\* recorded for year y-1 (the snapshot's revenue for y = 1), also when the
\* stage-1 growth is above 25% and decays.
C27_RecordedPriorRevenue(y) ==
    IF y = 1 THEN fundamentals.revenue ELSE result.projections[y - 1].revenue

C27_NwcFromRecordedRevenue ==
    (Valued3Stage /\ result.status = "ok")
        => \A y \in 1..10 :
              /\ Close(result.projections[y].prior_revenue,
                       C27_RecordedPriorRevenue(y))
              /\ result.projections[y].nwc_change =
                    NwcChange(assumptions, CogsMargin(fundamentals),
                              result.projections[y].revenue,
                              result.projections[y].prior_revenue)

\* ---------------------------------------------------------------------
\* C28: in every 3-stage result the present value of the terminal value is
\* the reported terminal value discounted over ten years at the WACC, and
\* the enterprise value is the ten-year sum of discounted cash flows plus
\* that present value, also when the dominance haircut was applied.
C28_DiscountedTerminalValue ==
    result.pv_terminal_value =
        Div(result.terminal_value, Pow(S + result.wacc, 10))

C28_EnterpriseValueSum ==
    result.enterprise_value = result.sum_pv_fcf_10y + result.pv_terminal_value

C28_TerminalValueConsistent ==
    (Valued3Stage /\ result.status = "ok")
        => C28_DiscountedTerminalValue /\ C28_EnterpriseValueSum

\* ---------------------------------------------------------------------
\* C29: in every 3-stage result the price per share times the year-10
\* projected shares equals the reported equity value, and the equity value
\* equals the enterprise value minus (year-10 projected debt minus cash),
\* also when the market-cap cap scaled the price and when the projected
\* shares are below 1.
\* The price is kept to one unit of 1/S, so the product is compared within
\* one price unit times the share count.
C29_PriceTimesShares ==
    Abs(Mul(result.price_per_share,
            result.projections[10].shares_outstanding)
        - result.equity_value)
        <= 2 + result.projections[10].shares_outstanding \div S

C29_EquityFromEnterpriseValue ==
    result.equity_value =
        result.enterprise_value
            - (result.projections[10].total_debt - fundamentals.cash)

C29_PriceSharesEquity ==
    (Valued3Stage /\ result.status = "ok")
        => C29_PriceTimesShares /\ C29_EquityFromEnterpriseValue

\* ---------------------------------------------------------------------
\* C30: in the sensitivity analysis of python-dcf the zero-delta cell of
\* each one-way grid and the (0, 0) cell of the two-way grid have the
\* price per share of the base case, for any base assumptions, a base
\* margin target below 5% or a base terminal growth below 1% included.
C30_BasePrice == dcf_response.results["base"].price_per_share

C30_GridsReturned ==
    /\ service = "dcf" /\ stage = "responded"
    /\ dcf_request.include_sensitivities /\ "base" \in dcf_request.scenarios
    /\ dcf_response.success

C30_OneWayCells ==
    \A grid \in {"revenue_growth_sensitivity", "margin_sensitivity",
                 "wacc_sensitivity", "terminal_growth_sensitivity"} :
        dcf_response.sensitivities[grid][0].price_per_share = C30_BasePrice

C30_TwoWayCell ==
    dcf_response.sensitivities.two_way_sensitivity[<<0, 0>>].price_per_share
        = C30_BasePrice

C30_ZeroDeltaIsBase ==
    C30_GridsReturned => C30_OneWayCells /\ C30_TwoWayCell

============================================================================
